---- MODULE Spec2Model ----
(***************************************************************************)
(* Data access layer of WikIA: CurriculumLoader (the Index), ContentLoader *)
(* (the Store) and DataManager (the caching Coordinator).                  *)
(*                                                                         *)
(* Python strings that take part in string operations (cache keys,         *)
(* substring search) are sequences of one-character strings.  Python dicts *)
(* are functions whose DOMAIN is the set of keys present.  Python objects  *)
(* whose identity matters (Topic, Challenge, Project) carry an object id   *)
(* `oid` drawn from the allocation counter next_oid.                       *)
(***************************************************************************)
EXTENDS Integers, Sequences, FiniteSets, TLC

VARIABLES
    curriculum_file,   \* content of <base>/curriculum.json on disk
    content_files,     \* content of each topic file on disk, by (sem, mat, arch)
    cl_semestres,      \* CurriculumLoader.semestres
    dm_semestres,      \* DataManager.semestres
    inicializado,      \* DataManager.inicializado
    cache,             \* DataManager.cache: four buckets, key -> stored object
    stats,             \* DataManager._stats
    next_oid,          \* identity of the next object the process allocates
    op,                \* the call made last: its name and arguments
    ret,               \* what that call returned
    store_calls,       \* the ContentLoader calls that call made, in order
    trace              \* successful unforced get_topic calls since construction

vars == <<curriculum_file, content_files, cl_semestres, dm_semestres,
          inicializado, cache, stats, next_oid, op, ret, store_calls, trace>>

\* ------------------------------------------------------------------ bounds
\* calls that add to a counter of _stats, per behaviour
MaxCalls == 2
\* the same, in the behaviours that only load topics
MaxTopicCalls == 4
\* semester records per curriculum document
MaxSemestres == 2
\* objects allocated per behaviour of direct ContentLoader use
MaxStoreCalls == 2
\* get_topic calls made by searches, per behaviour
MaxSearchCalls == 4
\* get_topic calls made by scans, per behaviour
MaxScanCalls == 3
\* get_topic calls around a reload, per behaviour
MaxReloadCalls == 3

\* ------------------------------------------------------------ Python values
EmptyDict == [k \in {} |-> ""]

RetNone == [kind |-> "none"]
RetBool(b) == [kind |-> "bool", val |-> b]
RetObj(o) == [kind |-> "obj", val |-> o]
RetList(l) == [kind |-> "list", val |-> l]
RetDict(d) == [kind |-> "dict", val |-> d]
\* the call raised exception e
RetRaise(e) == [kind |-> "raise", err |-> e]

\* dict.get(key, default)
DictGet(d, key, default) == IF key \in DOMAIN d THEN d[key] ELSE default

\* d[key] = value
DictPut(d, key, value) ==
    [k \in (DOMAIN d) \cup {key} |-> IF k = key THEN value ELSE d[k]]

\* str(n) for a non-negative int
RECURSIVE Digits(_)
Digits(n) ==
    LET d == <<"0", "1", "2", "3", "4", "5", "6", "7", "8", "9">>
    IN  IF n < 10 THEN <<d[n + 1]>> ELSE Digits(n \div 10) \o <<d[(n % 10) + 1]>>

\* ------------------------------------------------------ topic files on disk
\* The (semester, subject id, file name) triples the environment holds files
\* for.  Subject ids and file names contain "_" as the repository's do
\* ("algebra_superior", "teoria_conjuntos.json").
T_ab_c == [sem |-> 1, mat |-> <<"a", "_", "b">>, arch |-> <<"c">>]
T_a_bc == [sem |-> 1, mat |-> <<"a">>, arch |-> <<"b", "_", "c">>]
T_a_c == [sem |-> 2, mat |-> <<"a">>, arch |-> <<"c">>]
Triples == {T_ab_c, T_a_bc, T_a_c}

SectionKeys == {"1_conceptos_clave", "2_utilidad_practica", "3_relaciones",
                "4_aplicaciones_industria", "5_roles_laborales"}

RetoProg == [tipo |-> "programacion", titulo |-> "r", descripcion |-> "d",
             codigo_inicial |-> "c", solucion_referencia |-> "s"]
RetoConc == [tipo |-> "conceptual", titulo |-> "r", descripcion |-> "d",
             objetivos |-> "o"]

\* A topic document with all seven top-level keys.
TopicData(meta, reto) ==
    [k \in SectionKeys \cup {"metadata", "6_reto_proyecto"} |->
        IF k = "metadata" THEN meta
        ELSE IF k = "6_reto_proyecto" THEN reto
        ELSE [titulo |-> "s"]]

MetaBasico == [titulo |-> "t", dificultad |-> "basico"]
MetaAvanzado == [titulo |-> "t", dificultad |-> "avanzado"]

FileAbsent == [st |-> "absent"]
FileMalformed == [st |-> "malformed"]
FileProg == [st |-> "json", data |-> TopicData(MetaBasico, RetoProg)]
FileConc == [st |-> "json", data |-> TopicData(MetaAvanzado, RetoConc)]

FileDocs == {FileAbsent, FileProg, FileConc}

\* sixth sections that are not a complete challenge or project
RetoOtro == [tipo |-> "otro", titulo |-> "r", descripcion |-> "d"]
RetoSinTipo == [titulo |-> "r", descripcion |-> "d", objetivos |-> "o"]
RetoProgSinCodigo == [tipo |-> "programacion", titulo |-> "r", descripcion |-> "d"]
RetoConcSinObjetivos == [tipo |-> "conceptual", titulo |-> "r", descripcion |-> "d"]
RetoConcSinTitulo == [tipo |-> "conceptual", descripcion |-> "d", objetivos |-> "o"]
Retos == {RetoOtro, RetoSinTipo, RetoProgSinCodigo, RetoConcSinObjetivos,
          RetoConcSinTitulo}

FileReto(reto) == [st |-> "json", data |-> TopicData(MetaBasico, reto)]
\* the programming topic's document without top-level key k
FileSin(k) ==
    [st |-> "json",
     data |-> [j \in (DOMAIN FileProg.data) \ {k} |-> FileProg.data[j]]]
FileMetaVacia == [st |-> "json", data |-> TopicData(EmptyDict, RetoProg)]
\* the programming topic's document with {} as section k
FileSeccionVacia(k) ==
    [st |-> "json", data |-> [FileProg.data EXCEPT ![k] = EmptyDict]]
\* ... and with '' as metadata title
FileTituloVacio ==
    [st |-> "json",
     data |-> TopicData([titulo |-> "", dificultad |-> "basico"], RetoProg)]

StoreDocs ==
    {FileAbsent, FileMalformed, FileProg, FileConc, FileMetaVacia,
     FileSeccionVacia("3_relaciones"), FileTituloVacio}
    \cup {FileSin(k) : k \in SectionKeys \cup {"6_reto_proyecto", "metadata"}}
    \cup {FileReto(reto) : reto \in Retos}

\* ------------------------------------------------------------ exceptions
Ok(v) == [ok |-> TRUE, val |-> v]
Raise(e) == [ok |-> FALSE, err |-> e]

\* The file a path resolves to; a path nothing was written to does not exist.
FileAt(files, t) == IF t \in DOMAIN files THEN files[t] ELSE FileAbsent

\* ------------------------------------------------------------------ models
RequiredSections == {"metadata", "1_conceptos_clave", "2_utilidad_practica",
                     "3_relaciones", "4_aplicaciones_industria",
                     "5_roles_laborales", "6_reto_proyecto"}

\* no section is required: each is read with the default {}
Topic_init_lenient(data, oid, t) ==
    IF DictGet(data, "metadata", EmptyDict) = EmptyDict
    THEN Raise("ValueError")
    ELSE IF "titulo" \notin DOMAIN data["metadata"]
    THEN Raise("ValueError")
    ELSE Ok([cls |-> "Topic", oid |-> oid, src |-> t,
             metadata |-> data["metadata"],
             conceptos_clave |-> DictGet(data, "1_conceptos_clave", EmptyDict),
             utilidad_practica |-> DictGet(data, "2_utilidad_practica", EmptyDict),
             relaciones |-> DictGet(data, "3_relaciones", EmptyDict),
             aplicaciones_industria |->
                 DictGet(data, "4_aplicaciones_industria", EmptyDict),
             roles_laborales |-> DictGet(data, "5_roles_laborales", EmptyDict),
             reto_proyecto |-> DictGet(data, "6_reto_proyecto", EmptyDict)])

\* Topic.__init__: the Topic built from a parsed document, or the exception.
Topic_init(data, oid, t) ==
    IF \E section \in RequiredSections : section \notin DOMAIN data
    THEN Raise("KeyError")
    ELSE IF data["metadata"] = EmptyDict
    THEN Raise("ValueError")
    ELSE IF "titulo" \notin DOMAIN data["metadata"]
    THEN Raise("ValueError")
    ELSE Ok([cls |-> "Topic", oid |-> oid, src |-> t,
             metadata |-> data["metadata"],
             conceptos_clave |-> data["1_conceptos_clave"],
             utilidad_practica |-> data["2_utilidad_practica"],
             relaciones |-> data["3_relaciones"],
             aplicaciones_industria |-> data["4_aplicaciones_industria"],
             roles_laborales |-> data["5_roles_laborales"],
             reto_proyecto |-> data["6_reto_proyecto"]])

\* Topic.tiene_contenido_completo
tiene_contenido_completo(topic) ==
    /\ topic.metadata # EmptyDict
    /\ topic.conceptos_clave # EmptyDict
    /\ topic.utilidad_practica # EmptyDict
    /\ topic.relaciones # EmptyDict
    /\ topic.aplicaciones_industria # EmptyDict
    /\ topic.roles_laborales # EmptyDict
    /\ topic.reto_proyecto # EmptyDict

tipo_reto(topic) == DictGet(topic.reto_proyecto, "tipo", "conceptual")
es_reto_programacion(topic) == tipo_reto(topic) = "programacion"
es_proyecto_conceptual(topic) == tipo_reto(topic) = "conceptual"

\* Challenge.__init__: every field is read with a default, nothing is checked.
Challenge_init(data, oid, t) ==
    Ok([cls |-> "Challenge", oid |-> oid, src |-> t,
        tipo |-> DictGet(data, "tipo", "programacion"),
        titulo |-> DictGet(data, "titulo", "Reto sin titulo"),
        descripcion |-> DictGet(data, "descripcion", ""),
        codigo_inicial |-> DictGet(data, "codigo_inicial", ""),
        solucion |-> DictGet(data, "solucion_referencia", "")])

\* Project.__init__
Project_init(data, oid, t) ==
    IF DictGet(data, "tipo", "None") # "conceptual"
    THEN Raise("ValueError")
    ELSE IF \E f \in {"tipo", "titulo", "descripcion"} : f \notin DOMAIN data
    THEN Raise("ValueError")
    ELSE Ok([cls |-> "Project", oid |-> oid, src |-> t,
             tipo |-> data["tipo"],
             titulo |-> data["titulo"],
             descripcion |-> data["descripcion"],
             objetivos |-> DictGet(data, "objetivos", "")])

\* ---------------------------------------------------- ContentLoader (Store)
\* load_topic: the new Topic (allocated as object `oid`) or the exception.
load_topic(files, t, oid) ==
    LET f == FileAt(files, t)
    IN  IF f.st = "absent" THEN Raise("FileNotFoundError")
        ELSE IF f.st = "malformed" THEN Raise("JSONDecodeError")
        ELSE Topic_init(f.data, oid, t)

\* load_challenge: Ok(RetObj(challenge)), Ok(RetNone) or the exception.
load_challenge(files, t, oid) ==
    LET r == load_topic(files, t, oid)
    IN  IF ~r.ok THEN r
        ELSE IF es_reto_programacion(r.val)
        THEN LET c == Challenge_init(r.val.reto_proyecto, oid, t)
             IN  IF c.ok THEN Ok(RetObj(c.val)) ELSE c
        ELSE Ok(RetNone)

\* load_project: Ok(RetObj(project)), Ok(RetNone) or the exception.
load_project(files, t, oid) ==
    LET r == load_topic(files, t, oid)
    IN  IF ~r.ok THEN r
        ELSE IF es_proyecto_conceptual(r.val)
        THEN LET p == Project_init(r.val.reto_proyecto, oid, t)
             IN  IF p.ok THEN Ok(RetObj(p.val)) ELSE p
        ELSE Ok(RetNone)

existe_archivo(files, t) == FileAt(files, t).st # "absent"

\* obtener_metadatos: the document's metadata dict, {} when the document has
\* none, None when the file cannot be read or parsed.
obtener_metadatos(files, t) ==
    LET f == FileAt(files, t)
    IN  IF f.st # "json" THEN RetNone
        ELSE RetDict(DictGet(f.data, "metadata", EmptyDict))

\* ------------------------------------------------- curriculum.json on disk
TemaC == [id |-> <<"c">>, nombre |-> <<"C">>, archivo |-> <<"c">>]
TemaBC == [id |-> <<"b", "c">>, nombre |-> <<"B", "c">>,
           archivo |-> <<"b", "_", "c">>]
MatAB == [id |-> <<"a", "_", "b">>, nombre |-> <<"A", "b">>, creditos |-> 8,
          temas |-> <<TemaC>>]
MatA == [id |-> <<"a">>, nombre |-> <<"A">>, creditos |-> 6,
         temas |-> <<TemaBC>>]
MatA2 == [id |-> <<"a">>, nombre |-> <<"A">>, creditos |-> 6,
          temas |-> <<TemaC>>]
\* records that parse
SemData1 == [numero |-> 1, nombre |-> "Primer", materias |-> <<MatAB, MatA>>]
SemData2 == [numero |-> 2, nombre |-> "Segundo", materias |-> <<MatA2>>]
\* records that do not: no 'nombre'; numero out of 1..4; a subject without 'id'
SemSinNombre == [numero |-> 2, materias |-> <<MatA2>>]
SemNumero5 == [numero |-> 5, nombre |-> "Quinto", materias |-> <<MatA2>>]
SemMateriaSinId ==
    [numero |-> 2, nombre |-> "Segundo",
     materias |-> <<[nombre |-> <<"A">>, creditos |-> 6, temas |-> <<TemaC>>]>>]

JsonList(items) == [is_list |-> TRUE, items |-> items]
JsonNotList == [is_list |-> FALSE]

CurAbsent == [st |-> "absent"]
CurMalformed == [st |-> "malformed"]
CurOf(sems) == [st |-> "json", data |-> [version |-> "1", semestres |-> JsonList(sems)]]
CurSinSemestres == [st |-> "json", data |-> [version |-> "1"]]
CurNoLista == [st |-> "json", data |-> [version |-> "1", semestres |-> JsonNotList]]
CurVacio == [st |-> "json", data |-> EmptyDict]

\* -------------------------------------------------------- Subject, Semester
\* Subject.__post_init__ applied to the constructor's arguments.
Subject_init(id, nombre, creditos, temas) ==
    IF id = <<>> THEN Raise("ValueError")
    ELSE IF nombre = <<>> THEN Raise("ValueError")
    ELSE IF creditos < 0 THEN Raise("ValueError")
    ELSE IF \E i \in 1..Len(temas) :
                \E key \in {"id", "nombre", "archivo"} : key \notin DOMAIN temas[i]
    THEN Raise("ValueError")
    ELSE Ok([id |-> id, nombre |-> nombre, creditos |-> creditos, temas |-> temas])

\* the range of numero is not checked
Semester_init_any_numero(numero, nombre, materias) ==
    IF nombre = "" THEN Raise("ValueError")
    ELSE Ok([numero |-> numero, nombre |-> nombre, materias |-> materias])

\* Semester.__post_init__ applied to the constructor's arguments.
Semester_init(numero, nombre, materias) ==
    IF ~(1 <= numero /\ numero <= 4) THEN Raise("ValueError")
    ELSE IF nombre = "" THEN Raise("ValueError")
    ELSE Ok([numero |-> numero, nombre |-> nombre, materias |-> materias])

\* ------------------------------------------------- CurriculumLoader (Index)
_validar_estructura(data) ==
    IF data = EmptyDict THEN FALSE
    ELSE IF "semestres" \notin DOMAIN data THEN FALSE
    ELSE IF ~data["semestres"].is_list THEN FALSE
    ELSE IF Len(data["semestres"].items) = 0 THEN FALSE
    ELSE TRUE

\* _parse_materias: the Subjects of one semester record, or the exception of
\* the first record that fails.
RECURSIVE _parse_materias_from(_, _, _)
_parse_materias_from(materias_data, i, materias) ==
    IF i > Len(materias_data) THEN Ok(materias)
    ELSE LET mat_data == materias_data[i]
         IN  IF \E key \in {"id", "nombre"} : key \notin DOMAIN mat_data
             THEN Raise("KeyError")
             ELSE LET m == Subject_init(mat_data["id"], mat_data["nombre"],
                                        DictGet(mat_data, "creditos", 0),
                                        DictGet(mat_data, "temas", <<>>))
                  IN  IF ~m.ok THEN m
                      ELSE _parse_materias_from(materias_data, i + 1,
                                                Append(materias, m.val))

_parse_materias(materias_data) == _parse_materias_from(materias_data, 1, <<>>)

\* _parse_semestres: self.semestres is reset to [] and grows by one Semester
\* per record; `semestres` is the list as the method leaves it, `ok` whether it
\* returned or raised.
RECURSIVE _parse_semestres_from_prepend(_, _, _)
RECURSIVE _parse_semestres_from(_, _, _)
\* each Semester is put in front of the ones parsed before it
_parse_semestres_from_prepend(sems_data, i, semestres) ==
    IF i > Len(sems_data) THEN [ok |-> TRUE, semestres |-> semestres]
    ELSE LET sem_data == sems_data[i]
             ms == _parse_materias(DictGet(sem_data, "materias", <<>>))
         IN  IF ~ms.ok THEN [ok |-> FALSE, semestres |-> semestres]
             ELSE IF \E key \in {"numero", "nombre"} : key \notin DOMAIN sem_data
             THEN [ok |-> FALSE, semestres |-> semestres]
             ELSE LET sm == Semester_init(sem_data["numero"], sem_data["nombre"],
                                          ms.val)
                  IN  IF ~sm.ok THEN [ok |-> FALSE, semestres |-> semestres]
                      ELSE _parse_semestres_from_prepend(sems_data, i + 1,
                                                         <<sm.val>> \o semestres)

_parse_semestres_from(sems_data, i, semestres) ==
    IF i > Len(sems_data) THEN [ok |-> TRUE, semestres |-> semestres]
    ELSE LET sem_data == sems_data[i]
             ms == _parse_materias(DictGet(sem_data, "materias", <<>>))
         IN  IF ~ms.ok THEN [ok |-> FALSE, semestres |-> semestres]
             ELSE IF \E key \in {"numero", "nombre"} : key \notin DOMAIN sem_data
             THEN [ok |-> FALSE, semestres |-> semestres]
             ELSE LET sm == Semester_init(sem_data["numero"], sem_data["nombre"],
                                          ms.val)
                  IN  IF ~sm.ok THEN [ok |-> FALSE, semestres |-> semestres]
                      ELSE _parse_semestres_from(sems_data, i + 1,
                                                 Append(semestres, sm.val))

_parse_semestres(data) == _parse_semestres_from(data["semestres"].items, 1, <<>>)

\* CurriculumLoader.load on the file `file` with self.semestres = `semestres`:
\* res is "true", "false" or "raise" (FileNotFoundError and JSONDecodeError
\* are re-raised, every other exception makes load return False).
CurriculumLoader_load(file, semestres) ==
    IF file.st = "absent" THEN [res |-> "raise", semestres |-> semestres]
    ELSE IF file.st = "malformed" THEN [res |-> "raise", semestres |-> semestres]
    ELSE IF ~_validar_estructura(file.data)
    THEN [res |-> "false", semestres |-> semestres]
    ELSE LET p == _parse_semestres(file.data)
         IN  [res |-> IF p.ok THEN "true" ELSE "false", semestres |-> p.semestres]

\* CurriculumLoader.get_semestre: first semester with that number, or None.
CurriculumLoader_get_semestre(semestres, numero) ==
    IF \E i \in 1..Len(semestres) : semestres[i].numero = numero
    THEN RetObj(semestres[CHOOSE i \in 1..Len(semestres) :
                    /\ semestres[i].numero = numero
                    /\ \A j \in 1..(i - 1) : semestres[j].numero # numero])
    ELSE RetNone

\* Semester.get_materia_by_id
get_materia_by_id(semestre, materia_id) ==
    LET ms == semestre.materias
    IN  IF \E i \in 1..Len(ms) : ms[i].id = materia_id
        THEN RetObj(ms[CHOOSE i \in 1..Len(ms) :
                        /\ ms[i].id = materia_id
                        /\ \A j \in 1..(i - 1) : ms[j].id # materia_id])
        ELSE RetNone

\* CurriculumLoader.get_materia
CurriculumLoader_get_materia(semestres, semestre_num, materia_id) ==
    LET s == CurriculumLoader_get_semestre(semestres, semestre_num)
    IN  IF s.kind = "obj" THEN get_materia_by_id(s.val, materia_id) ELSE RetNone

\* str.lower() on the characters the documents use
LowerChar(c) == IF c = "A" THEN "a" ELSE IF c = "B" THEN "b"
                ELSE IF c = "C" THEN "c" ELSE c
Lower(str) == [i \in 1..Len(str) |-> LowerChar(str[i])]

\* sub in str
Contains(sub, str) ==
    \E i \in 0..(Len(str) - Len(sub)) : SubSeq(str, i + 1, i + Len(sub)) = sub

\* for semestre in semestres: for materia in semestre.materias
RECURSIVE FlatMaterias(_)
FlatMaterias(semestres) ==
    IF semestres = <<>> THEN <<>>
    ELSE LET sem == Head(semestres)
         IN  [j \in 1..Len(sem.materias) |->
                 [semestre |-> sem, materia |-> sem.materias[j]]]
             \o FlatMaterias(Tail(semestres))

\* ... for tema_info in materia.temas
RECURSIVE FlatTemasOf(_)
FlatTemasOf(pairs) ==
    IF pairs = <<>> THEN <<>>
    ELSE LET p == Head(pairs)
         IN  [k \in 1..Len(p.materia.temas) |->
                 [semestre |-> p.semestre, materia |-> p.materia,
                  tema |-> p.materia.temas[k]]]
             \o FlatTemasOf(Tail(pairs))

FlatTemas(semestres) == FlatTemasOf(FlatMaterias(semestres))

\* CurriculumLoader.buscar_materias
CurriculumLoader_buscar_materias(semestres, query) ==
    LET query_lower == Lower(query)
        Match(p) == \/ Contains(query_lower, Lower(p.materia.nombre))
                    \/ Contains(query_lower, Lower(p.materia.id))
        hits == SelectSeq(FlatMaterias(semestres), Match)
    IN  [i \in 1..Len(hits) |->
            [semestre |-> hits[i].semestre.numero, materia |-> hits[i].materia]]

\* CurriculumLoader.buscar_temas (Subject.buscar_temas on every subject)
CurriculumLoader_buscar_temas(semestres, query) ==
    LET query_lower == Lower(query)
        Match(s) == \/ Contains(query_lower, Lower(s.tema["nombre"]))
                    \/ Contains(query_lower, Lower(s.tema["id"]))
        hits == SelectSeq(FlatTemas(semestres), Match)
    IN  [i \in 1..Len(hits) |->
            [semestre |-> hits[i].semestre.numero,
             semestre_nombre |-> hits[i].semestre.nombre,
             materia_id |-> hits[i].materia.id,
             materia_nombre |-> hits[i].materia.nombre,
             tema_id |-> hits[i].tema["id"],
             tema_nombre |-> hits[i].tema["nombre"],
             archivo |-> hits[i].tema["archivo"]]]

\* ------------------------------------------------ DataManager (Coordinator)
\* A DataManager `self` is [inicializado, semestres, cache, stats, next_oid];
\* a method yields the DataManager it leaves, what it returns and the
\* ContentLoader calls it made.
Outcome(self, r, sc) == [self |-> self, ret |-> r, store |-> sc]

StoreCall(fn, t) == [fn |-> fn, t |-> t]

_generar_cache_key(semestre_num, materia_id, tema_archivo) ==
    Digits(semestre_num) \o <<"_">> \o materia_id \o <<"_">> \o tema_archivo

KeyOf(t) == _generar_cache_key(t.sem, t.mat, t.arch)

\* self._stats[counter] += 1
Bump(self, counter) == [self EXCEPT !.stats[counter] = @ + 1]

\* the lookup never finds an entry
cache_hit_never(self, bucket, cache_key, force_reload) == FALSE

\* the lookup disregards force_reload
cache_hit_despite_force(self, bucket, cache_key, force_reload) ==
    cache_key \in DOMAIN self.cache[bucket]

\* `if not force_reload and cache_key in self.cache[bucket]`
cache_hit(self, bucket, cache_key, force_reload) ==
    ~force_reload /\ cache_key \in DOMAIN self.cache[bucket]

\* storing an entry drops the bucket's other entries
CachePut_evicting(self, bucket, key, value) ==
    [self EXCEPT !.cache[bucket] = DictPut(EmptyDict, key, value)]

\* self.cache[bucket][key] = value
CachePut(self, bucket, key, value) ==
    [self EXCEPT !.cache[bucket] = DictPut(@, key, value)]

\* a load that fails removes the entry under the key
get_topic_drops_on_failure(self, files, t, force_reload) ==
    IF ~self.inicializado THEN Outcome(self, RetNone, <<>>)
    ELSE LET cache_key == KeyOf(t)
         IN  IF cache_hit(self, "topics", cache_key, force_reload)
             THEN Outcome(Bump(self, "cache_hits"),
                          RetObj(self.cache.topics[cache_key]), <<>>)
             ELSE LET missed == Bump(self, "cache_misses")
                      r == load_topic(files, t, self.next_oid)
                      sc == <<StoreCall("load_topic", t)>>
                  IN  IF r.ok
                      THEN Outcome(
                             [Bump(CachePut(missed, "topics", cache_key, r.val),
                                   "topics_loaded")
                                EXCEPT !.next_oid = @ + 1],
                             RetObj(r.val), sc)
                      ELSE Outcome(
                             [missed EXCEPT !.cache.topics =
                                 [k \in (DOMAIN @) \ {cache_key} |-> @[k]]],
                             RetNone, sc)

\* a load that fails is counted as loaded
get_topic_counts_failed_load(self, files, t, force_reload) ==
    IF ~self.inicializado THEN Outcome(self, RetNone, <<>>)
    ELSE LET cache_key == KeyOf(t)
         IN  IF cache_hit(self, "topics", cache_key, force_reload)
             THEN Outcome(Bump(self, "cache_hits"),
                          RetObj(self.cache.topics[cache_key]), <<>>)
             ELSE LET missed == Bump(self, "cache_misses")
                      r == load_topic(files, t, self.next_oid)
                      sc == <<StoreCall("load_topic", t)>>
                  IN  IF r.ok
                      THEN Outcome(
                             [Bump(CachePut(missed, "topics", cache_key, r.val),
                                   "topics_loaded")
                                EXCEPT !.next_oid = @ + 1],
                             RetObj(r.val), sc)
                      ELSE Outcome(Bump(missed, "topics_loaded"), RetNone, sc)

get_topic(self, files, t, force_reload) ==
    IF ~self.inicializado THEN Outcome(self, RetNone, <<>>)
    ELSE LET cache_key == KeyOf(t)
         IN  IF cache_hit(self, "topics", cache_key, force_reload)
             THEN Outcome(Bump(self, "cache_hits"),
                          RetObj(self.cache.topics[cache_key]), <<>>)
             ELSE LET missed == Bump(self, "cache_misses")
                      r == load_topic(files, t, self.next_oid)
                      sc == <<StoreCall("load_topic", t)>>
                  IN  IF r.ok
                      THEN Outcome(
                             [Bump(CachePut(missed, "topics", cache_key, r.val),
                                   "topics_loaded")
                                EXCEPT !.next_oid = @ + 1],
                             RetObj(r.val), sc)
                      ELSE Outcome(missed, RetNone, sc)

get_challenge(self, files, t, force_reload) ==
    IF ~self.inicializado THEN Outcome(self, RetNone, <<>>)
    ELSE LET cache_key == KeyOf(t)
         IN  IF cache_hit(self, "challenges", cache_key, force_reload)
             THEN Outcome(Bump(self, "cache_hits"),
                          RetObj(self.cache.challenges[cache_key]), <<>>)
             ELSE LET r == load_challenge(files, t, self.next_oid)
                      sc == <<StoreCall("load_challenge", t)>>
                  IN  IF r.ok /\ r.val.kind = "obj"
                      THEN Outcome(
                             [Bump(CachePut(self, "challenges", cache_key, r.val.val),
                                   "challenges_loaded")
                                EXCEPT !.next_oid = @ + 1],
                             r.val, sc)
                      ELSE Outcome(self, RetNone, sc)

\* an absent result is stored too
get_project_caches_absent(self, files, t, force_reload) ==
    IF ~self.inicializado THEN Outcome(self, RetNone, <<>>)
    ELSE LET cache_key == KeyOf(t)
         IN  IF cache_hit(self, "projects", cache_key, force_reload)
             THEN Outcome(Bump(self, "cache_hits"),
                          RetObj(self.cache.projects[cache_key]), <<>>)
             ELSE LET r == load_project(files, t, self.next_oid)
                      sc == <<StoreCall("load_project", t)>>
                  IN  IF r.ok /\ r.val.kind = "obj"
                      THEN Outcome(
                             [Bump(CachePut(self, "projects", cache_key, r.val.val),
                                   "projects_loaded")
                                EXCEPT !.next_oid = @ + 1],
                             r.val, sc)
                      ELSE IF r.ok
                      THEN Outcome(
                             CachePut(self, "projects", cache_key,
                                      [cls |-> "NoneType", oid |-> 0, src |-> t]),
                             RetNone, sc)
                      ELSE Outcome(self, RetNone, sc)

get_project(self, files, t, force_reload) ==
    IF ~self.inicializado THEN Outcome(self, RetNone, <<>>)
    ELSE LET cache_key == KeyOf(t)
         IN  IF cache_hit(self, "projects", cache_key, force_reload)
             THEN Outcome(Bump(self, "cache_hits"),
                          RetObj(self.cache.projects[cache_key]), <<>>)
             ELSE LET r == load_project(files, t, self.next_oid)
                      sc == <<StoreCall("load_project", t)>>
                  IN  IF r.ok /\ r.val.kind = "obj"
                      THEN Outcome(
                             [Bump(CachePut(self, "projects", cache_key, r.val.val),
                                   "projects_loaded")
                                EXCEPT !.next_oid = @ + 1],
                             r.val, sc)
                      ELSE Outcome(self, RetNone, sc)

\* the preview is taken from a cached Topic when there is one
get_metadatos_tema_from_topics(self, files, t) ==
    IF KeyOf(t) \in DOMAIN self.cache.topics
    THEN Outcome(self, RetDict(self.cache.topics[KeyOf(t)].metadata), <<>>)
    ELSE LET metadatos == obtener_metadatos(files, t)
         IN  Outcome(self, metadatos, <<StoreCall("obtener_metadatos", t)>>)

get_metadatos_tema(self, files, t) ==
    LET cache_key == <<"m", "e", "t", "a", "_">> \o KeyOf(t)
    IN  IF cache_key \in DOMAIN self.cache.metadata
        THEN Outcome(self, RetDict(self.cache.metadata[cache_key]), <<>>)
        ELSE LET metadatos == obtener_metadatos(files, t)
                 sc == <<StoreCall("obtener_metadatos", t)>>
             IN  IF metadatos.kind = "dict" /\ metadatos.val # EmptyDict
                 THEN Outcome(CachePut(self, "metadata", cache_key, metadatos.val),
                              metadatos, sc)
                 ELSE Outcome(self, metadatos, sc)

StubTriple(stub) ==
    [sem |-> stub.semestre.numero, mat |-> stub.materia.id,
     arch |-> stub.tema["archivo"]]

\* buscar_temas_por_dificultad: one get_metadatos_tema per stub, in order.
RECURSIVE buscar_temas_por_dificultad_from(_, _, _, _, _, _)
buscar_temas_por_dificultad_from(self, files, dificultad, stubs, resultados, sc) ==
    IF stubs = <<>> THEN Outcome(self, RetList(resultados), sc)
    ELSE LET stub == Head(stubs)
             m == get_metadatos_tema(self, files, StubTriple(stub))
             keep == /\ m.ret.kind = "dict"
                     /\ m.ret.val # EmptyDict
                     /\ DictGet(m.ret.val, "dificultad", "None") = dificultad
             found == [semestre |-> stub.semestre.numero,
                       materia |-> stub.materia.nombre,
                       materia_id |-> stub.materia.id,
                       tema |-> stub.tema["nombre"],
                       archivo |-> stub.tema["archivo"]]
         IN  buscar_temas_por_dificultad_from(
                 m.self, files, dificultad, Tail(stubs),
                 IF keep THEN Append(resultados, found) ELSE resultados,
                 sc \o m.store)

buscar_temas_por_dificultad(self, files, dificultad) ==
    buscar_temas_por_dificultad_from(self, files, dificultad,
                                     FlatTemas(self.semestres), <<>>, <<>>)

\* buscar_retos_programacion: one get_topic per stub, in order.
RECURSIVE buscar_retos_programacion_from(_, _, _, _, _)
buscar_retos_programacion_from(self, files, stubs, resultados, sc) ==
    IF stubs = <<>> THEN Outcome(self, RetList(resultados), sc)
    ELSE LET stub == Head(stubs)
             g == get_topic(self, files, StubTriple(stub), FALSE)
             keep == g.ret.kind = "obj" /\ es_reto_programacion(g.ret.val)
             found == [semestre |-> stub.semestre.numero,
                       materia |-> stub.materia.nombre,
                       materia_id |-> stub.materia.id,
                       tema |-> stub.tema["nombre"],
                       archivo |-> stub.tema["archivo"],
                       titulo_reto |-> DictGet(g.ret.val.reto_proyecto, "titulo", ""),
                       dificultad |-> DictGet(g.ret.val.metadata, "dificultad",
                                              "no especificada")]
         IN  buscar_retos_programacion_from(
                 g.self, files, Tail(stubs),
                 IF keep THEN Append(resultados, found) ELSE resultados,
                 sc \o g.store)

buscar_retos_programacion(self, files) ==
    buscar_retos_programacion_from(self, files, FlatTemas(self.semestres),
                                   <<>>, <<>>)

\* limpiar_cache(tipo); tipo "None" is the omitted argument.
BucketNames == {"topics", "challenges", "projects", "metadata"}

\* every bucket is cleared whatever tipo names
limpiar_cache_todo(self, tipo) ==
    Outcome([self EXCEPT !.cache = [b \in DOMAIN self.cache |-> EmptyDict]],
            RetNone, <<>>)

\* clearing also sets the counters back to zero
limpiar_cache_reset_stats(self, tipo) ==
    Outcome([self EXCEPT
                !.cache = [b \in DOMAIN self.cache |->
                              IF tipo \in {"None", "", b} THEN EmptyDict
                              ELSE self.cache[b]],
                !.stats = [c \in DOMAIN self.stats |-> 0]],
            RetNone, <<>>)

limpiar_cache(self, tipo) ==
    IF tipo \notin {"None", ""}
    THEN IF tipo \in DOMAIN self.cache
         THEN Outcome([self EXCEPT !.cache[tipo] = EmptyDict], RetNone, <<>>)
         ELSE Outcome(self, RetNone, <<>>)
    ELSE Outcome([self EXCEPT !.cache = [b \in DOMAIN self.cache |-> EmptyDict]],
                 RetNone, <<>>)

\* get_cache_stats; hit_rate is the fraction num/den.
get_cache_stats(self) ==
    [topics_cached |-> Cardinality(DOMAIN self.cache.topics),
     challenges_cached |-> Cardinality(DOMAIN self.cache.challenges),
     projects_cached |-> Cardinality(DOMAIN self.cache.projects),
     metadata_cached |-> Cardinality(DOMAIN self.cache.metadata),
     cache_hits |-> self.stats.cache_hits,
     cache_misses |-> self.stats.cache_misses,
     hit_rate |-> IF self.stats.cache_hits + self.stats.cache_misses > 0
                  THEN [num |-> self.stats.cache_hits,
                        den |-> self.stats.cache_hits + self.stats.cache_misses]
                  ELSE [num |-> 0, den |-> 1],
     topics_loaded |-> self.stats.topics_loaded,
     challenges_loaded |-> self.stats.challenges_loaded,
     projects_loaded |-> self.stats.projects_loaded]

\* initialize: `cl` is CurriculumLoader.semestres as the call leaves it.
initialize(self, cl_sems, file) ==
    LET l == CurriculumLoader_load(file, cl_sems)
    IN  IF l.res # "true"
        THEN [self |-> self, cl |-> l.semestres, ret |-> RetBool(FALSE)]
        ELSE LET loaded == [self EXCEPT !.semestres = l.semestres]
             IN  IF loaded.semestres = <<>>
                 THEN [self |-> loaded, cl |-> l.semestres, ret |-> RetBool(FALSE)]
                 ELSE [self |-> [loaded EXCEPT !.inicializado = TRUE],
                       cl |-> l.semestres, ret |-> RetBool(TRUE)]

get_semestres(self) ==
    IF ~self.inicializado THEN RetList(<<>>) ELSE RetList(self.semestres)

get_semestre(self, cl_sems, numero) ==
    IF ~self.inicializado THEN RetNone
    ELSE CurriculumLoader_get_semestre(cl_sems, numero)

get_materia(self, cl_sems, semestre_num, materia_id) ==
    IF ~self.inicializado THEN RetNone
    ELSE CurriculumLoader_get_materia(cl_sems, semestre_num, materia_id)

buscar_materias(self, cl_sems, query) ==
    IF ~self.inicializado THEN RetList(<<>>)
    ELSE RetList(CurriculumLoader_buscar_materias(cl_sems, query))

buscar_temas(self, cl_sems, query) ==
    IF ~self.inicializado THEN RetList(<<>>)
    ELSE RetList(CurriculumLoader_buscar_temas(cl_sems, query))

\* ------------------------------------------------------------ SearchEngine
\* str.strip(): leading and trailing whitespace removed
RECURSIVE LStrip(_)
LStrip(str) ==
    IF str # <<>> /\ Head(str) = " " THEN LStrip(Tail(str)) ELSE str

RECURSIVE RStrip(_)
RStrip(str) ==
    IF str # <<>> /\ str[Len(str)] = " "
    THEN RStrip(SubSeq(str, 1, Len(str) - 1))
    ELSE str

Strip(str) == RStrip(LStrip(str))

\* str.split(): the maximal runs of non-whitespace characters
RECURSIVE SplitFrom(_, _, _)
SplitFrom(str, word, words) ==
    IF str = <<>>
    THEN IF word = <<>> THEN words ELSE Append(words, word)
    ELSE IF Head(str) = " "
    THEN SplitFrom(Tail(str), <<>>,
                   IF word = <<>> THEN words ELSE Append(words, word))
    ELSE SplitFrom(Tail(str), Append(word, Head(str)), words)

Split(str) == SplitFrom(str, <<>>, <<>>)

StartsWith(str, prefix) ==
    Len(prefix) <= Len(str) /\ SubSeq(str, 1, Len(prefix)) = prefix

\* difflib.SequenceMatcher (no junk; autojunk needs 200 characters).
\* Blocks: the <<i, j, k>> with a[i..i+k-1] = b[j..j+k-1], k >= 1.
MatchingBlocksOf(a, b) ==
    {m \in (1..Len(a)) \X (1..Len(b)) \X (1..Len(a)) :
        /\ m[1] + m[3] - 1 <= Len(a)
        /\ m[2] + m[3] - 1 <= Len(b)
        /\ SubSeq(a, m[1], m[1] + m[3] - 1) = SubSeq(b, m[2], m[2] + m[3] - 1)}

\* find_longest_match: the longest block; of those the earliest in a; of
\* those the earliest in b.
find_longest_match(a, b) ==
    CHOOSE m \in MatchingBlocksOf(a, b) :
        \A n \in MatchingBlocksOf(a, b) :
            \/ n[3] < m[3]
            \/ n[3] = m[3] /\ m[1] < n[1]
            \/ n[3] = m[3] /\ m[1] = n[1] /\ m[2] <= n[2]

\* get_matching_blocks: total size of the blocks found by taking the longest
\* match and recursing on the pieces to its left and to its right.
RECURSIVE Matches(_, _)
Matches(a, b) ==
    IF MatchingBlocksOf(a, b) = {} THEN 0
    ELSE LET m == find_longest_match(a, b)
         IN  Matches(SubSeq(a, 1, m[1] - 1), SubSeq(b, 1, m[2] - 1))
             + m[3]
             + Matches(SubSeq(a, m[1] + m[3], Len(a)),
                       SubSeq(b, m[2] + m[3], Len(b)))

\* Scores are kept as exact fractions num/den, den > 0.
Frac(n, d) == [num |-> n, den |-> d]
FracAdd(x, y) == Frac(x.num * y.den + y.num * x.den, x.den * y.den)
FracScale(k, x) == Frac(k * x.num, x.den)
FracLess(x, y) == x.num * y.den < y.num * x.den
FracEq(x, y) == x.num * y.den = y.num * x.den

\* SearchEngine._similarity: SequenceMatcher(None, a, b).ratio()
_similarity(a, b) ==
    IF Len(a) + Len(b) = 0 THEN Frac(1, 1)
    ELSE Frac(2 * Matches(a, b), Len(a) + Len(b))

\* SearchEngine.min_similarity (0.6), as a fraction
min_similarity == Frac(6, 10)

\* SearchEngine._calcular_relevancia; query is already lower-cased.
_calcular_relevancia(query, tema_info, materia_nombre) ==
    LET tema_nombre == Lower(tema_info["nombre"])
        tema_id == Lower(tema_info["id"])
        materia_lower == Lower(materia_nombre)
        exact == (IF Contains(query, tema_nombre)
                  THEN (IF StartsWith(tema_nombre, query) THEN 12 ELSE 10)
                  ELSE 0)
                 + (IF Contains(query, tema_id) THEN 8 ELSE 0)
                 + (IF Contains(query, materia_lower) THEN 5 ELSE 0)
        similarity_nombre == _similarity(query, tema_nombre)
        similarity_id == _similarity(query, tema_id)
        query_words == Split(query)
        tema_words == Split(tema_nombre)
        word_hits ==
            Cardinality({i \in 1..Len(query_words) :
                /\ Len(query_words[i]) >= 3
                /\ \E j \in 1..Len(tema_words) :
                      \/ Contains(query_words[i], tema_words[j])
                      \/ Contains(tema_words[j], query_words[i])})
    IN  FracAdd(
          FracAdd(Frac(exact + 3 * word_hits, 1),
                  IF ~FracLess(similarity_nombre, min_similarity)
                  THEN FracScale(7, similarity_nombre) ELSE Frac(0, 1)),
          IF ~FracLess(similarity_id, min_similarity)
          THEN FracScale(5, similarity_id) ELSE Frac(0, 1))

\* the length test is made on the query as passed
query_too_short_unstripped(query) == Len(query) < 2

\* `if not query or len(query.strip()) < 2`
query_too_short(query) == query = <<>> \/ Len(Strip(query)) < 2

\* the list is left in enumeration order
sort_by_relevancia_none(resultados) == resultados

\* resultados.sort(key=relevancia, reverse=True): stable, so each record goes
\* behind the earlier records that score at least as much.
RECURSIVE sort_by_relevancia(_)
sort_by_relevancia(resultados) ==
    IF resultados = <<>> THEN <<>>
    ELSE LET n == Len(resultados)
             sorted == sort_by_relevancia(SubSeq(resultados, 1, n - 1))
             x == resultados[n]
             k == Cardinality({i \in 1..(n - 1) :
                      ~FracLess(sorted[i].relevancia, x.relevancia)})
         IN  SubSeq(sorted, 1, k) \o <<x>> \o SubSeq(sorted, k + 1, n - 1)

\* resultados[:max_results]
slice_to(resultados, max_results) ==
    IF max_results >= 0
    THEN SubSeq(resultados, 1,
                IF max_results < Len(resultados) THEN max_results
                ELSE Len(resultados))
    ELSE SubSeq(resultados, 1,
                IF Len(resultados) + max_results > 0
                THEN Len(resultados) + max_results ELSE 0)

\* every stub is taken as relevant
es_relevante_siempre(relevancia) == TRUE

\* `if relevancia > 0`
es_relevante(relevancia) == relevancia.num > 0

\* The loop of SearchEngine.search over the topic stubs; a filter that is
\* None or empty is "" (<<>> for materia_id, 0 for semestre).
RECURSIVE search_from(_, _, _, _, _, _, _, _, _, _)
search_from(self, files, query, semestre, materia_id, dificultad, tipo, stubs, resultados, sc) ==
    IF stubs = <<>> THEN Outcome(self, RetList(resultados), sc)
    ELSE
      LET stub == Head(stubs)
          t == StubTriple(stub)
          relevancia == _calcular_relevancia(query, stub.tema, stub.materia.nombre)
          m == get_metadatos_tema(self, files, t)
          metadatos == m.ret.kind = "dict" /\ m.ret.val # EmptyDict
          resultado ==
              [relevancia |-> relevancia,
               semestre |-> stub.semestre.numero,
               semestre_nombre |-> stub.semestre.nombre,
               materia_id |-> stub.materia.id,
               materia_nombre |-> stub.materia.nombre,
               tema_id |-> stub.tema["id"],
               tema_nombre |-> stub.tema["nombre"],
               archivo |-> stub.tema["archivo"],
               dificultad |-> IF metadatos
                              THEN DictGet(m.ret.val, "dificultad", "no especificada")
                              ELSE "desconocida"]
          g == get_topic(m.self, files, t, FALSE)
          topic == g.ret.kind = "obj"
          con_tipo ==
              [k \in DOMAIN resultado \cup {"tipo_reto"} |->
                  IF k = "tipo_reto"
                  THEN (IF topic THEN tipo_reto(g.ret.val) ELSE "desconocido")
                  ELSE resultado[k]]
          Rest(self2, rs, sc2) ==
              search_from(self2, files, query, semestre, materia_id, dificultad,
                          tipo, Tail(stubs), rs, sc2)
      IN  IF semestre # 0 /\ stub.semestre.numero # semestre
          THEN Rest(self, resultados, sc)
          ELSE IF materia_id # <<>> /\ stub.materia.id # materia_id
          THEN Rest(self, resultados, sc)
          ELSE IF ~es_relevante(relevancia)
          THEN Rest(self, resultados, sc)
          ELSE IF /\ dificultad # ""
                  /\ metadatos
                  /\ DictGet(m.ret.val, "dificultad", "None") # dificultad
          THEN Rest(m.self, resultados, sc \o m.store)
          ELSE IF tipo = ""
          THEN Rest(m.self, Append(resultados, resultado), sc \o m.store)
          ELSE IF topic /\ tipo_reto(g.ret.val) # tipo
          THEN Rest(g.self, resultados, sc \o m.store \o g.store)
          ELSE Rest(g.self, Append(resultados, con_tipo), sc \o m.store \o g.store)

\* SearchEngine.search
search(self, files, query, semestre, materia_id, dificultad, tipo, max_results) ==
    IF query_too_short(query) THEN Outcome(self, RetList(<<>>), <<>>)
    ELSE LET o == search_from(self, files, Strip(Lower(query)), semestre,
                              materia_id, dificultad, tipo,
                              FlatTemas(get_semestres(self).val), <<>>, <<>>)
         IN  Outcome(o.self,
                     RetList(slice_to(sort_by_relevancia(o.ret.val), max_results)),
                     o.store)

\* f"{result['semestre']}_{result['materia_id']}_{result['archivo']}"
result_key(result) ==
    Digits(result.semestre) \o <<"_">> \o result.materia_id \o <<"_">> \o result.archivo

\* One pass of the inner loop of the OR branch: the results of one keyword
\* merged into all_results, a dict kept as its (key, record) pairs in
\* insertion order.
RECURSIVE merge_results(_, _)
merge_results(all_results, results) ==
    IF results = <<>> THEN all_results
    ELSE LET result == Head(results)
             key == result_key(result)
             merged ==
                 IF \E i \in 1..Len(all_results) : all_results[i].key = key
                 THEN [i \in 1..Len(all_results) |->
                          IF all_results[i].key = key
                          THEN [all_results[i] EXCEPT !.rec.relevancia =
                                    FracAdd(@, result.relevancia)]
                          ELSE all_results[i]]
                 ELSE Append(all_results, [key |-> key, rec |-> result])
         IN  merge_results(merged, Tail(results))

\* the OR branch: one search per keyword, each on the coordinator the
\* previous one left
RECURSIVE keywords_or_from(_, _, _, _, _)
keywords_or_from(self, files, keywords, all_results, sc) ==
    IF keywords = <<>>
    THEN Outcome(self,
                 RetList(sort_by_relevancia(
                     [i \in 1..Len(all_results) |-> all_results[i].rec])),
                 sc)
    ELSE LET o == search(self, files, Head(keywords), 0, <<>>, "", "", 50)
         IN  keywords_or_from(o.self, files, Tail(keywords),
                              merge_results(all_results, o.ret.val),
                              sc \o o.store)

\* the filter ignores the subject's name
contiene_keyword_solo_tema(r, keyword) ==
    Contains(Lower(keyword), Lower(r.tema_nombre))

\* keyword.lower() in r['tema_nombre'].lower() or ... r['materia_nombre'].lower()
contiene_keyword(r, keyword) ==
    \/ Contains(Lower(keyword), Lower(r.tema_nombre))
    \/ Contains(Lower(keyword), Lower(r.materia_nombre))

\* the AND branch's loop over keywords[1:]
RECURSIVE keywords_and_filter(_, _)
keywords_and_filter(results, keywords) ==
    IF keywords = <<>> THEN results
    ELSE LET Keep(r) == contiene_keyword(r, Head(keywords))
         IN  keywords_and_filter(SelectSeq(results, Keep), Tail(keywords))

\* SearchEngine.search_by_keywords
search_by_keywords(self, files, keywords, operator) ==
    IF keywords = <<>> THEN Outcome(self, RetList(<<>>), <<>>)
    ELSE IF operator = "OR"
    THEN keywords_or_from(self, files, keywords, <<>>, <<>>)
    ELSE IF operator = "AND"
    THEN LET o == search(self, files, Head(keywords), 0, <<>>, "", "", 50)
         IN  Outcome(o.self,
                     RetList(keywords_and_filter(o.ret.val, Tail(keywords))),
                     o.store)
    ELSE Outcome(self, RetList(<<>>), <<>>)

\* a method returned the tuple (a, b)
RetTuple(a, b) == [kind |-> "tuple", val |-> <<a, b>>]

\* CurriculumLoader.validar_integridad on the loader's list: the problems
\* found, as the strings the code formats.
CurriculumLoader_validar_integridad(semestres) ==
    IF semestres = <<>>
    THEN <<<<"N", "o", " ", "h", "a", "y", " ", "s", "e", "m", "e", "s", "t", "r", "e", "s", " ", "c", "a", "r", "g", "a", "d", "o", "s">>>>
    ELSE LET OfMateria(p) ==
                 IF Len(p.materia.temas) = 0
                 THEN <<<<"M", "a", "t", "e", "r", "i", "a", " ", "'">> \o p.materia.nombre
                        \o <<"'", " ", "(", "S", "e", "m", " ">> \o Digits(p.semestre.numero)
                        \o <<")", " ", "n", "o", " ", "t", "i", "e", "n", "e", " ", "t", "e", "m", "a", "s">>>>
                 ELSE <<>>
             RECURSIVE OfMaterias(_)
             OfMaterias(pairs) ==
                 IF pairs = <<>> THEN <<>>
                 ELSE OfMateria(Head(pairs)) \o OfMaterias(Tail(pairs))
             RECURSIVE OfSemestres(_)
             OfSemestres(sems) ==
                 IF sems = <<>> THEN <<>>
                 ELSE LET sem == Head(sems)
                      IN  (IF Len(sem.materias) = 0
                           THEN <<<<"S", "e", "m", "e", "s", "t", "r", "e", " ">> \o Digits(sem.numero)
                                  \o <<" ", "n", "o", " ", "t", "i", "e", "n", "e", " ", "m", "a", "t", "e", "r", "i", "a", "s">>>>
                           ELSE <<>>)
                          \o OfMaterias(FlatMaterias(<<sem>>))
                          \o OfSemestres(Tail(sems))
         IN  OfSemestres(semestres)

\* f"Archivo no existe: {semestre.numero}/{materia.id}/{tema_info['archivo']}"
ArchivoNoExiste(t) ==
    <<"A", "r", "c", "h", "i", "v", "o", " ", "n", "o", " ", "e", "x", "i", "s", "t", "e", ":", " ">>
    \o Digits(t.sem) \o <<"/">> \o t.mat \o <<"/">> \o t.arch

\* only the first missing file is reported
temas_sin_archivo_solo_uno(self, files) ==
    LET Falta(stub) == ~existe_archivo(files, StubTriple(stub))
        sin == SelectSeq(FlatTemas(self.semestres), Falta)
    IN  [i \in 1..(IF Len(sin) > 0 THEN 1 ELSE 0) |->
            ArchivoNoExiste(StubTriple(sin[i]))]

\* the sweep of validar_integridad_completa: one problem per stub of
\* self.semestres whose file does not exist, in stub order
temas_sin_archivo(self, files) ==
    LET Falta(stub) == ~existe_archivo(files, StubTriple(stub))
        sin == SelectSeq(FlatTemas(self.semestres), Falta)
    IN  [i \in 1..Len(sin) |-> ArchivoNoExiste(StubTriple(sin[i]))]

\* DataManager.validar_integridad_completa
validar_integridad_completa(self, cl_sems, files) ==
    IF ~self.inicializado
    THEN Outcome(self, RetTuple(FALSE, <<<<"S", "i", "s", "t", "e", "m", "a", " ", "n", "o", " ", "i", "n", "i", "c", "i", "a", "l", "i", "z", "a", "d", "o">>>>), <<>>)
    ELSE LET stubs == FlatTemas(self.semestres)
             problemas == CurriculumLoader_validar_integridad(cl_sems)
                          \o temas_sin_archivo(self, files)
         IN  Outcome(self, RetTuple(Len(problemas) = 0, problemas),
                     [i \in 1..Len(stubs) |->
                         StoreCall("existe_archivo", StubTriple(stubs[i]))])

\* ------------------------------------------------------------ the program
Self == [inicializado |-> inicializado, semestres |-> dm_semestres,
         cache |-> cache, stats |-> stats, next_oid |-> next_oid]

\* The calls whose effects accumulate: each adds to a counter of _stats.
Budget(st) ==
    st.cache_hits + st.cache_misses + st.challenges_loaded + st.projects_loaded

Commit(o) ==
    /\ inicializado' = o.self.inicializado
    /\ dm_semestres' = o.self.semestres
    /\ cache' = o.self.cache
    /\ stats' = o.self.stats
    /\ next_oid' = o.self.next_oid
    /\ ret' = o.ret
    /\ store_calls' = o.store

Within(o) == Budget(o.self.stats) <= MaxCalls /\ Commit(o)

Reads(r) ==
    /\ ret' = r
    /\ store_calls' = <<>>
    /\ UNCHANGED <<inicializado, dm_semestres, cache, stats, next_oid>>

Impure == [pure |-> FALSE, seq |-> <<>>]

\* what the callers pass
Queries == {<<"a">>, <<"c">>, <<"z">>}
Dificultades == {"basico", "avanzado"}
Tipos == {"None", "topics", "challenges", "projects", "metadata", "otro"}

\* what the environment holds
CurValido == CurOf(<<SemData1, SemData2>>)
CurriculumDocs == {CurValido, CurAbsent, CurOf(<<SemData1, SemSinNombre>>)}
SemRecords == {SemData1, SemData2, SemSinNombre, SemNumero5, SemMateriaSinId}
IndexDocs ==
    {CurAbsent, CurMalformed, CurSinSemestres, CurNoLista, CurVacio}
    \cup {CurOf(sems) : sems \in UNION {[1..n -> SemRecords] : n \in 0..MaxSemestres}}
\* documents without a usable semester list, and the empty list
BrokenDocs ==
    {CurAbsent, CurMalformed, CurSinSemestres, CurNoLista, CurVacio, CurOf(<<>>)}
\* the topic file the environment rewrites
Mutable == T_ab_c

InitProgram ==
    /\ cl_semestres = <<>>
    /\ dm_semestres = <<>>
    /\ inicializado = FALSE
    /\ cache = [b \in BucketNames |-> EmptyDict]
    /\ stats = [cache_hits |-> 0, cache_misses |-> 0, topics_loaded |-> 0,
                challenges_loaded |-> 0, projects_loaded |-> 0]
    /\ next_oid = 1
    /\ op = [name |-> "__init__"]
    /\ ret = RetNone
    /\ store_calls = <<>>
    /\ trace = [pure |-> TRUE, seq |-> <<>>]

Init ==
    /\ curriculum_file \in CurriculumDocs
    /\ \E doc \in FileDocs :
          content_files = [t \in Triples |->
                              IF t = Mutable THEN doc
                              ELSE IF t = T_a_bc THEN FileConc ELSE FileProg]
    /\ InitProgram

InitIndex ==
    /\ curriculum_file \in IndexDocs
    /\ content_files = [t \in Triples |-> FileProg]
    /\ InitProgram

Do_initialize ==
    LET o == initialize(Self, cl_semestres, curriculum_file)
    IN  /\ op' = [name |-> "initialize"]
        /\ cl_semestres' = o.cl
        /\ Commit(Outcome(o.self, o.ret, <<>>))
        /\ UNCHANGED <<curriculum_file, content_files, trace>>

Do_get_semestres ==
    /\ op' = [name |-> "get_semestres"]
    /\ Reads(get_semestres(Self))
    /\ trace' = Impure
    /\ UNCHANGED <<curriculum_file, content_files, cl_semestres>>

Do_get_semestre(numero) ==
    /\ op' = [name |-> "get_semestre", numero |-> numero]
    /\ Reads(get_semestre(Self, cl_semestres, numero))
    /\ trace' = Impure
    /\ UNCHANGED <<curriculum_file, content_files, cl_semestres>>

Do_get_materia(numero, materia_id) ==
    /\ op' = [name |-> "get_materia", numero |-> numero, mat |-> materia_id]
    /\ Reads(get_materia(Self, cl_semestres, numero, materia_id))
    /\ trace' = Impure
    /\ UNCHANGED <<curriculum_file, content_files, cl_semestres>>

Do_buscar_materias(query) ==
    /\ op' = [name |-> "buscar_materias", query |-> query]
    /\ Reads(buscar_materias(Self, cl_semestres, query))
    /\ trace' = Impure
    /\ UNCHANGED <<curriculum_file, content_files, cl_semestres>>

Do_buscar_temas(query) ==
    /\ op' = [name |-> "buscar_temas", query |-> query]
    /\ Reads(buscar_temas(Self, cl_semestres, query))
    /\ trace' = Impure
    /\ UNCHANGED <<curriculum_file, content_files, cl_semestres>>

GetTopicStep(t, force_reload, max) ==
    LET o == get_topic(Self, content_files, t, force_reload)
    IN  /\ op' = [name |-> "get_topic", t |-> t, force |-> force_reload]
        /\ Budget(o.self.stats) <= max
        /\ Commit(o)
        /\ trace' = IF trace.pure /\ ~force_reload /\ o.ret.kind = "obj"
                    THEN [trace EXCEPT !.seq = Append(@, t)]
                    ELSE Impure
        /\ UNCHANGED <<curriculum_file, content_files, cl_semestres>>

Do_get_topic(t, force_reload) == GetTopicStep(t, force_reload, MaxCalls)

Do_get_challenge(t, force_reload) ==
    /\ op' = [name |-> "get_challenge", t |-> t, force |-> force_reload]
    /\ Within(get_challenge(Self, content_files, t, force_reload))
    /\ trace' = Impure
    /\ UNCHANGED <<curriculum_file, content_files, cl_semestres>>

Do_get_project(t, force_reload) ==
    /\ op' = [name |-> "get_project", t |-> t, force |-> force_reload]
    /\ Within(get_project(Self, content_files, t, force_reload))
    /\ trace' = Impure
    /\ UNCHANGED <<curriculum_file, content_files, cl_semestres>>

Do_get_metadatos_tema(t) ==
    /\ op' = [name |-> "get_metadatos_tema", t |-> t]
    /\ Within(get_metadatos_tema(Self, content_files, t))
    /\ trace' = Impure
    /\ UNCHANGED <<curriculum_file, content_files, cl_semestres>>

Do_buscar_temas_por_dificultad(dificultad) ==
    /\ op' = [name |-> "buscar_temas_por_dificultad", dificultad |-> dificultad]
    /\ Within(buscar_temas_por_dificultad(Self, content_files, dificultad))
    /\ trace' = Impure
    /\ UNCHANGED <<curriculum_file, content_files, cl_semestres>>

Do_buscar_retos_programacion ==
    /\ op' = [name |-> "buscar_retos_programacion"]
    /\ Within(buscar_retos_programacion(Self, content_files))
    /\ trace' = Impure
    /\ UNCHANGED <<curriculum_file, content_files, cl_semestres>>

Do_limpiar_cache(tipo) ==
    /\ op' = [name |-> "limpiar_cache", tipo |-> tipo]
    /\ Commit(limpiar_cache(Self, tipo))
    /\ trace' = Impure
    /\ UNCHANGED <<curriculum_file, content_files, cl_semestres>>

\* The environment rewrites, creates or deletes a topic file.
WriteFile(t, doc) ==
    /\ content_files[t] # doc
    /\ content_files' = [content_files EXCEPT ![t] = doc]
    /\ UNCHANGED <<curriculum_file, cl_semestres, dm_semestres, inicializado,
                   cache, stats, next_oid, op, ret, store_calls, trace>>

\* The environment rewrites, creates or deletes curriculum.json.
WriteCurriculum(doc) ==
    /\ curriculum_file # doc
    /\ curriculum_file' = doc
    /\ UNCHANGED <<content_files, cl_semestres, dm_semestres, inicializado,
                   cache, stats, next_oid, op, ret, store_calls, trace>>

\* curriculum.json is rewritten with one more semester record at the end
AppendSemestre(sd) ==
    /\ curriculum_file.st = "json"
    /\ "semestres" \in DOMAIN curriculum_file.data
    /\ curriculum_file.data["semestres"].is_list
    /\ Len(curriculum_file.data["semestres"].items) < MaxSemestres
    /\ curriculum_file' = CurOf(Append(curriculum_file.data["semestres"].items, sd))
    /\ UNCHANGED <<content_files, cl_semestres, dm_semestres, inicializado,
                   cache, stats, next_oid, op, ret, store_calls, trace>>

\* A caller uses the ContentLoader directly.
Do_load_topic(t) ==
    LET r == load_topic(content_files, t, next_oid)
    IN  /\ next_oid <= MaxStoreCalls
        /\ op' = [name |-> "load_topic", t |-> t]
        /\ ret' = IF r.ok THEN RetObj(r.val) ELSE RetRaise(r.err)
        /\ next_oid' = IF r.ok THEN next_oid + 1 ELSE next_oid
        /\ store_calls' = <<StoreCall("load_topic", t)>>
        /\ trace' = Impure
        /\ UNCHANGED <<curriculum_file, content_files, cl_semestres,
                       dm_semestres, inicializado, cache, stats>>

Do_load_challenge(t) ==
    LET r == load_challenge(content_files, t, next_oid)
    IN  /\ next_oid <= MaxStoreCalls
        /\ op' = [name |-> "load_challenge", t |-> t]
        /\ ret' = IF r.ok THEN r.val ELSE RetRaise(r.err)
        /\ next_oid' = IF r.ok /\ r.val.kind = "obj" THEN next_oid + 1 ELSE next_oid
        /\ store_calls' = <<StoreCall("load_challenge", t)>>
        /\ trace' = Impure
        /\ UNCHANGED <<curriculum_file, content_files, cl_semestres,
                       dm_semestres, inicializado, cache, stats>>

Do_load_project(t) ==
    LET r == load_project(content_files, t, next_oid)
    IN  /\ next_oid <= MaxStoreCalls
        /\ op' = [name |-> "load_project", t |-> t]
        /\ ret' = IF r.ok THEN r.val ELSE RetRaise(r.err)
        /\ next_oid' = IF r.ok /\ r.val.kind = "obj" THEN next_oid + 1 ELSE next_oid
        /\ store_calls' = <<StoreCall("load_project", t)>>
        /\ trace' = Impure
        /\ UNCHANGED <<curriculum_file, content_files, cl_semestres,
                       dm_semestres, inicializado, cache, stats>>

\* SearchEngine.search with the arguments a.
Do_search(a) ==
    LET o == search(Self, content_files, a.query, a.semestre, a.materia_id,
                    a.dificultad, a.tipo, a.max_results)
    IN  /\ op' = [name |-> "search", query |-> a.query, semestre |-> a.semestre,
                  materia_id |-> a.materia_id, dificultad |-> a.dificultad,
                  tipo |-> a.tipo, max_results |-> a.max_results]
        /\ Budget(o.self.stats) <= MaxSearchCalls
        /\ Commit(o)
        /\ trace' = Impure
        /\ UNCHANGED <<curriculum_file, content_files, cl_semestres>>

Do_search_by_keywords(keywords, operator) ==
    /\ op' = [name |-> "search_by_keywords", keywords |-> keywords,
              operator |-> operator]
    /\ Commit(search_by_keywords(Self, content_files, keywords, operator))
    /\ trace' = Impure
    /\ UNCHANGED <<curriculum_file, content_files, cl_semestres>>

Do_validar_integridad_completa ==
    /\ op' = [name |-> "validar_integridad_completa"]
    /\ Commit(validar_integridad_completa(Self, cl_semestres, content_files))
    /\ trace' = Impure
    /\ UNCHANGED <<curriculum_file, content_files, cl_semestres>>

\* buscar_retos_programacion where a whole scan fits the budget
Scan_buscar_retos_programacion ==
    LET o == buscar_retos_programacion(Self, content_files)
    IN  /\ op' = [name |-> "buscar_retos_programacion"]
        /\ Budget(o.self.stats) <= MaxScanCalls
        /\ Commit(o)
        /\ trace' = Impure
        /\ UNCHANGED <<curriculum_file, content_files, cl_semestres>>

\* The Coordinator and its caches.
Next ==
    \/ Do_initialize
    \/ \E t \in Triples, f \in BOOLEAN : Do_get_topic(t, f)
    \/ \E t \in Triples, f \in BOOLEAN : Do_get_challenge(t, f)
    \/ \E t \in Triples, f \in BOOLEAN : Do_get_project(t, f)
    \/ \E t \in Triples : Do_get_metadatos_tema(t)
    \/ \E d \in Dificultades : Do_buscar_temas_por_dificultad(d)
    \/ Do_buscar_retos_programacion
    \/ \E tipo \in Tipos : Do_limpiar_cache(tipo)
    \/ \E doc \in FileDocs : WriteFile(Mutable, doc)

Spec == Init /\ [][Next]_vars

\* Sessions that only load topics.
Topics_get_topic(t, force_reload) == GetTopicStep(t, force_reload, MaxTopicCalls)

NextTopics ==
    \/ Do_initialize
    \/ \E t \in Triples, f \in BOOLEAN : Topics_get_topic(t, f)
    \/ \E tipo \in {"None", "topics"} : Do_limpiar_cache(tipo)
    \/ \E doc \in FileDocs : WriteFile(Mutable, doc)

SpecTopics == Init /\ [][NextTopics]_vars

\* The Index behind the Coordinator, over every curriculum document.
NextIndex ==
    \/ Do_initialize
    \/ \E doc \in BrokenDocs : WriteCurriculum(doc)
    \/ \E sd \in SemRecords : AppendSemestre(sd)
    \/ Do_get_semestres
    \/ \E n \in 1..2 : Do_get_semestre(n)
    \/ \E t \in Triples : Do_get_materia(t.sem, t.mat)
    \/ \E q \in Queries : Do_buscar_materias(q)
    \/ \E q \in Queries : Do_buscar_temas(q)

SpecIndex == InitIndex /\ [][NextIndex]_vars

\* The Store, used directly and through get_topic, over every kind of topic
\* document.
InitStore ==
    /\ curriculum_file = CurValido
    /\ \E doc \in StoreDocs :
          content_files = [t \in Triples |-> IF t = Mutable THEN doc ELSE FileProg]
    /\ InitProgram

Store_get_topic(t, force_reload) == GetTopicStep(t, force_reload, MaxStoreCalls)

NextStore ==
    \/ Do_initialize
    \/ \E t \in Triples, f \in BOOLEAN : Store_get_topic(t, f)
    \/ \E t \in Triples : Do_load_topic(t)
    \/ \E t \in Triples : Do_load_challenge(t)
    \/ \E t \in Triples : Do_load_project(t)
    \/ \E doc \in StoreDocs : WriteFile(Mutable, doc)

SpecStore == InitStore /\ [][NextStore]_vars

\* The SearchEngine over the Coordinator.
SearchQueries == {<<"b", "c">>, <<"B", "C", " ">>, <<" ", "c">>, <<>>}
SearchArgs ==
    [query : SearchQueries, semestre : {0}, materia_id : {<<>>},
     dificultad : {""}, tipo : {""}, max_results : {1, 50}]
    \cup [query : {<<"a", "b">>}, semestre : {0}, materia_id : {<<>>},
          dificultad : {""}, tipo : {""}, max_results : {50}]
    \cup [query : {<<"b", "c">>}, semestre : {0, 2}, materia_id : {<<>>, <<"a">>},
          dificultad : {"", "basico"}, tipo : {"", "programacion"},
          max_results : {50}]
SearchDocs == {FileAbsent, FileProg, FileConc, FileMetaVacia}

InitSearch ==
    /\ curriculum_file = CurValido
    /\ \E doc \in SearchDocs :
          content_files = [t \in Triples |->
                              IF t = Mutable THEN doc
                              ELSE IF t = T_a_bc THEN FileConc ELSE FileProg]
    /\ InitProgram

NextSearch ==
    \/ Do_initialize
    \/ \E a \in SearchArgs : Do_search(a)
    \/ \E doc \in SearchDocs : WriteFile(Mutable, doc)

SpecSearch == InitSearch /\ [][NextSearch]_vars

\* The integrity validation, over curricula with an empty semester or an
\* empty subject and topic files that come and go.
SemSinMaterias == [numero |-> 2, nombre |-> "Segundo", materias |-> <<>>]
SemMateriaSinTemas ==
    [numero |-> 2, nombre |-> "Segundo",
     materias |-> <<[id |-> <<"a">>, nombre |-> <<"A">>, creditos |-> 6,
                     temas |-> <<>>]>>]
ScanCurricula ==
    {CurValido, CurOf(<<SemData1, SemSinMaterias>>),
     CurOf(<<SemSinMaterias, SemData1>>),
     CurOf(<<SemData1, SemMateriaSinTemas>>), CurOf(<<SemData1, SemSinNombre>>),
     CurAbsent}
ScanDocs == {FileAbsent, FileMalformed, FileProg, FileConc}

InitScan ==
    /\ curriculum_file \in ScanCurricula
    /\ content_files \in [Triples -> {FileAbsent, FileProg}]
    /\ InitProgram

NextScan ==
    \/ Do_initialize
    \/ Do_validar_integridad_completa
    \/ Scan_buscar_retos_programacion
    \/ \E doc \in ScanDocs : WriteFile(Mutable, doc)
    \/ \E doc \in ScanCurricula : WriteCurriculum(doc)

SpecScan == InitScan /\ [][NextScan]_vars

\* Searches by several keywords.
KeywordLists ==
    {<<>>, <<<<"b", "c">>>>, <<<<"b", "c">>, <<"b", "c">>>>,
     <<<<"b", "c">>, <<"a">>>>, <<<<"b", "c">>, <<"B">>>>,
     <<<<"b", "c">>, <<"a">>, <<"b">>>>, <<<<"c">>, <<"a">>>>,
     <<<<"b", "c">>, <<"z">>>>}
Operators == {"OR", "AND", "XOR"}

NextKeywords ==
    \/ Do_initialize
    \/ \E keywords \in KeywordLists, operator \in Operators :
          Do_search_by_keywords(keywords, operator)
    \/ \E doc \in SearchDocs : WriteFile(Mutable, doc)

SpecKeywords == InitSearch /\ [][NextKeywords]_vars

\* the two triples that share a cache key
CacheTriples == {T_ab_c, T_a_bc}

\* Loads and reloads of a topic whose file turns bad.
ReloadDocs ==
    {FileAbsent, FileMalformed, FileSin("3_relaciones"), FileProg, FileConc}

Reload_get_topic(t, force_reload) == GetTopicStep(t, force_reload, MaxReloadCalls)

NextReload ==
    \/ Do_initialize
    \/ \E t \in CacheTriples, f \in BOOLEAN : Reload_get_topic(t, f)
    \/ \E doc \in ReloadDocs : WriteFile(Mutable, doc)

SpecReload == Init /\ [][NextReload]_vars

\* The four buckets and the counters, on the two triples that share a key.
NextCache ==
    \/ Do_initialize
    \/ \E t \in CacheTriples, f \in BOOLEAN : Do_get_topic(t, f)
    \/ \E t \in CacheTriples, f \in BOOLEAN : Do_get_challenge(t, f)
    \/ \E t \in CacheTriples, f \in BOOLEAN : Do_get_project(t, f)
    \/ \E t \in CacheTriples : Do_get_metadatos_tema(t)
    \/ \E tipo \in Tipos : Do_limpiar_cache(tipo)
    \/ \E doc \in FileDocs : WriteFile(Mutable, doc)

SpecCache == Init /\ [][NextCache]_vars

\* ------------------------------------------------------------- properties
\* A step in which the program, not the environment, acted.
IsCall == UNCHANGED <<curriculum_file, content_files>>

\* C1: when an unforced get_topic for a triple returned a Topic, the next
\* call to the coordinator, if it is an unforced get_topic for the same
\* triple, returns that same object and makes no ContentLoader call.
C1_RepeatedGetReturnsSameInstance ==
    [][\A t \in Triples :
          (/\ op.name = "get_topic"
           /\ op.t = t
           /\ ~op.force
           /\ ret.kind = "obj"
           /\ Topics_get_topic(t, FALSE))
          => (ret' = ret /\ store_calls' = <<>>)]_vars

\* C1 witness: a second unforced get_topic was answered from the bucket.
C1_Witness ==
    /\ op.name = "get_topic"
    /\ ~op.force
    /\ ret.kind = "obj"
    /\ store_calls = <<>>
    /\ trace.pure
    /\ Len(trace.seq) = 2
    /\ trace.seq[1] = trace.seq[2]

\* C2: a forced get_topic on a Ready coordinator asks the ContentLoader; the
\* Topic it returns is an object allocated by this call (so none returned or
\* cached before), it is the bucket's entry for the key afterwards, and an
\* unforced get_topic for the triple made next returns it.
C2_ForceReloadReplacesEntry ==
    /\ [][\A t \in Triples :
             (inicializado /\ Topics_get_topic(t, TRUE))
             => /\ store_calls' = <<StoreCall("load_topic", t)>>
                /\ ret'.kind = "obj" =>
                     /\ ret'.val.oid >= next_oid
                     /\ \A k \in DOMAIN cache.topics : cache.topics[k] # ret'.val
                     /\ KeyOf(t) \in DOMAIN cache'.topics
                     /\ cache'.topics[KeyOf(t)] = ret'.val]_vars
    /\ [][\A t \in Triples :
             (/\ op.name = "get_topic"
              /\ op.t = t
              /\ op.force
              /\ ret.kind = "obj"
              /\ Topics_get_topic(t, FALSE))
             => ret' = ret]_vars

\* C2 witness: a forced get_topic replaced an entry that was there.
C2_Witness ==
    /\ op.name = "get_topic"
    /\ op.force
    /\ ret.kind = "obj"
    /\ stats.topics_loaded >= 2
    /\ Cardinality(DOMAIN cache.topics) = 1
    /\ cache.topics[KeyOf(op.t)] = ret.val

\* C3: on a coordinator that was only initialized, after K unforced get_topic
\* calls for K distinct triples and K more for the same triples, all of
\* which returned a Topic, cache_hits = K, cache_misses = K and hit_rate = 1/2.
C3_CacheAccounting ==
    \A K \in 1..(MaxTopicCalls \div 2) :
        (/\ trace.pure
         /\ Len(trace.seq) = 2 * K
         /\ \A i, j \in 1..K : i # j => trace.seq[i] # trace.seq[j]
         /\ \A i, j \in (K + 1)..(2 * K) : i # j => trace.seq[i] # trace.seq[j]
         /\ {trace.seq[i] : i \in 1..K} = {trace.seq[i] : i \in (K + 1)..(2 * K)})
        => LET st == get_cache_stats(Self)
           IN  /\ st.cache_hits = K
               /\ st.cache_misses = K
               /\ 2 * st.hit_rate.num = st.hit_rate.den

\* C4: a read made before the coordinator is Ready returns nothing, makes
\* no ContentLoader call and leaves the buckets and counters as they were.
GuardedReads ==
    {"get_semestres", "get_semestre", "get_materia", "get_topic",
     "get_challenge", "get_project", "get_metadatos_tema", "buscar_materias",
     "buscar_temas", "buscar_temas_por_dificultad", "buscar_retos_programacion"}

EmptyResult(r) == r.kind = "none" \/ (r.kind = "list" /\ r.val = <<>>)

C4_ReadinessGuard ==
    [][(IsCall /\ ~inicializado /\ op'.name \in GuardedReads)
       => /\ EmptyResult(ret')
          /\ store_calls' = <<>>
          /\ cache' = cache
          /\ stats' = stats]_vars

\* A curriculum document every record of which has its required fields and
\* passes the constructors' checks, with at least one semester record.
ValidTema(tema) == {"id", "nombre", "archivo"} \subseteq DOMAIN tema

ValidMateria(m) ==
    /\ {"id", "nombre"} \subseteq DOMAIN m
    /\ m["id"] # <<>>
    /\ m["nombre"] # <<>>
    /\ DictGet(m, "creditos", 0) >= 0
    /\ \A i \in 1..Len(DictGet(m, "temas", <<>>)) : ValidTema(m["temas"][i])

ValidSemestre(sd) ==
    /\ {"numero", "nombre"} \subseteq DOMAIN sd
    /\ sd["numero"] \in 1..4
    /\ sd["nombre"] # ""
    /\ \A i \in 1..Len(DictGet(sd, "materias", <<>>)) :
          ValidMateria(sd["materias"][i])

LoadableCurriculum(file) ==
    /\ file.st = "json"
    /\ "semestres" \in DOMAIN file.data
    /\ file.data["semestres"].is_list
    /\ Len(file.data["semestres"].items) >= 1
    /\ \A i \in 1..Len(file.data["semestres"].items) :
          ValidSemestre(file.data["semestres"].items[i])

\* C5: initialize() on a coordinator that is not Ready returns a boolean
\* (it does not raise); it returns true exactly when curriculum.json is
\* present, well formed, holds a non-empty semester list and every record is
\* valid, and the coordinator is Ready afterwards exactly when it returned
\* true.
C5_InitializeStateMachine ==
    [][(IsCall /\ op'.name = "initialize" /\ ~inicializado)
       => /\ ret'.kind = "bool"
          /\ ret'.val = LoadableCurriculum(curriculum_file)
          /\ inicializado' = ret'.val
          /\ ret'.val => Len(dm_semestres') >= 1]_vars

\* C5 witness: initialize() failed on a record after parsing earlier ones.
C5_Witness ==
    /\ op.name = "initialize"
    /\ ret = RetBool(FALSE)
    /\ ~inicializado
    /\ cl_semestres # <<>>

\* C6: a get_topic, get_challenge or get_project call returns an object
\* built from the file of the triple it was called with.
C6_NoCrossTripleHit ==
    (op.name \in {"get_topic", "get_challenge", "get_project"} /\ ret.kind = "obj")
    => ret.val.src = op.t

BucketOf(name) ==
    IF name = "get_topic" THEN "topics"
    ELSE IF name = "get_challenge" THEN "challenges"
    ELSE IF name = "get_project" THEN "projects"
    ELSE "metadata"

NoEntryFor(bucket, t) == \A k \in DOMAIN bucket : bucket[k].src # t

\* C7 as claimed: after a get_challenge or get_project call that returns
\* absent, the bucket holds no entry for the triple.
C7_AbsentLeavesNoEntry ==
    [][(/\ IsCall
        /\ inicializado
        /\ op'.name \in {"get_challenge", "get_project"}
        /\ ret'.kind = "none")
       => NoEntryFor(cache'[BucketOf(op'.name)], op'.t)]_vars

\* C7 as amended: get_challenge and get_project change their bucket only by
\* storing the object the ContentLoader just returned; a call that returns
\* absent leaves the buckets unchanged; after an unforced call that returns
\* absent the bucket has no entry for the key, and the next call for the
\* triple asks the ContentLoader again.
C7_AbsentIsNotCached ==
    /\ [][(/\ IsCall
           /\ inicializado
           /\ op'.name \in {"get_challenge", "get_project"})
          => LET b == BucketOf(op'.name)
             IN  /\ cache'[b] # cache[b] =>
                      /\ ret'.kind = "obj"
                      /\ store_calls' # <<>>
                      /\ cache'[b] = DictPut(cache[b], KeyOf(op'.t), ret'.val)
                 /\ ret'.kind = "none" =>
                      /\ cache' = cache
                      /\ ~op'.force =>
                           /\ KeyOf(op'.t) \notin DOMAIN cache'[b]
                           /\ NoEntryFor(cache'[b], op'.t)]_vars
    /\ [][(/\ IsCall
           /\ inicializado
           /\ op.name \in {"get_challenge", "get_project"}
           /\ ~op.force
           /\ ret.kind = "none"
           /\ op'.name = op.name
           /\ op'.t = op.t)
          => store_calls' # <<>>]_vars

\* C7 witness: get_project found a programming topic, stored nothing, and
\* was asked again.
C7_Witness ==
    /\ inicializado
    /\ op.name = "get_project"
    /\ op.force
    /\ ret.kind = "none"
    /\ store_calls = <<StoreCall("load_project", op.t)>>
    /\ existe_archivo(content_files, op.t)
    /\ cache.projects = EmptyDict
    /\ cache.challenges # EmptyDict

\* C8: limpiar_cache with a bucket's name empties that bucket and leaves the
\* other three as they were; without argument it empties all four; a get
\* made next on a bucket just cleared asks the ContentLoader.
C8_ClearCache ==
    /\ [][(IsCall /\ op'.name = "limpiar_cache")
          => /\ op'.tipo \in BucketNames =>
                  /\ cache'[op'.tipo] = EmptyDict
                  /\ \A b \in BucketNames \ {op'.tipo} : cache'[b] = cache[b]
             /\ op'.tipo = "None" =>
                  \A b \in BucketNames : cache'[b] = EmptyDict]_vars
    /\ [][(/\ IsCall
           /\ op.name = "limpiar_cache"
           /\ op'.name \in {"get_topic", "get_challenge", "get_project",
                            "get_metadatos_tema"}
           /\ op.tipo \in {"None", BucketOf(op'.name)}
           /\ inicializado \/ op'.name = "get_metadatos_tema")
          => store_calls' # <<>>]_vars

\* C8 witness: the topics bucket was cleared while another bucket holds an
\* entry.
C8_Witness ==
    /\ op.name = "limpiar_cache"
    /\ op.tipo = "topics"
    /\ stats.topics_loaded >= 1
    /\ cache.topics = EmptyDict
    /\ cache.challenges # EmptyDict
    /\ cache.metadata # EmptyDict

\* C9: a step other than limpiar_cache removes no key from any bucket.
C9_NoEviction ==
    [][op'.name # "limpiar_cache"
       => \A b \in BucketNames : DOMAIN cache[b] \subseteq DOMAIN cache'[b]]_vars

\* C9 witness: a forced reload ran with entries in two buckets.
C9_Witness ==
    /\ op.name = "get_topic"
    /\ op.force
    /\ ret.kind = "obj"
    /\ Cardinality(DOMAIN cache.topics) = 2
    /\ cache.metadata # EmptyDict

\* C10: when initialize() fails on a record of a well-structured curriculum
\* document, the Index's semester list is what it was before the call.
C10_FailedLoadExposesNothing ==
    [][(/\ IsCall
        /\ op'.name = "initialize"
        /\ ret' = RetBool(FALSE)
        /\ curriculum_file.st = "json"
        /\ _validar_estructura(curriculum_file.data))
       => cl_semestres' = cl_semestres]_vars

\* total number of subjects of a list of semesters or semester records
RECURSIVE SumMaterias(_)
SumMaterias(sems) ==
    IF sems = <<>> THEN 0
    ELSE Len(DictGet(Head(sems), "materias", <<>>)) + SumMaterias(Tail(sems))

\* C11: after a successful load of a curriculum document the Index holds one
\* Semester per semester record, in document order, each with one Subject per
\* subject record, in document order; the subject counts add up to the
\* document's.
C11_LoadKeepsEveryRecord ==
    [][(IsCall /\ op'.name = "initialize" /\ ret' = RetBool(TRUE))
       => LET items == curriculum_file.data["semestres"].items
          IN  /\ Len(cl_semestres') = Len(items)
              /\ SumMaterias(cl_semestres') = SumMaterias(items)
              /\ \A i \in 1..Len(items) :
                    /\ cl_semestres'[i].numero = items[i]["numero"]
                    /\ cl_semestres'[i].nombre = items[i]["nombre"]
                    /\ Len(cl_semestres'[i].materias) = Len(items[i]["materias"])
                    /\ \A j \in 1..Len(items[i]["materias"]) :
                          /\ cl_semestres'[i].materias[j].id
                               = items[i]["materias"][j]["id"]
                          /\ cl_semestres'[i].materias[j].temas
                               = items[i]["materias"][j]["temas"]]_vars

\* C11 witness: a document listing semester 2 before semester 1 was loaded.
C11_Witness ==
    /\ op.name = "initialize"
    /\ ret = RetBool(TRUE)
    /\ Len(cl_semestres) = 2
    /\ cl_semestres[1].numero = 2
    /\ cl_semestres[2].numero = 1
    /\ SumMaterias(cl_semestres) = 3

\* A topic document without one of the sections 1_ to 6_.
LacksSection(f) ==
    /\ f.st = "json"
    /\ \E k \in SectionKeys \cup {"6_reto_proyecto"} : k \notin DOMAIN f.data

\* C12: load_topic on a document lacking one of the sections 1_ to 6_ raises
\* the missing-section error (KeyError) and returns no Topic; a get_topic that
\* loads such a document (forced, or with no entry under its key) returns
\* absent and leaves the buckets as they were.
C12_MissingSectionFails ==
    /\ [][(/\ IsCall
           /\ op'.name = "load_topic"
           /\ LacksSection(FileAt(content_files, op'.t)))
          => ret' = RetRaise("KeyError")]_vars
    /\ [][(/\ IsCall
           /\ op'.name = "get_topic"
           /\ inicializado
           /\ op'.force \/ KeyOf(op'.t) \notin DOMAIN cache.topics
           /\ LacksSection(FileAt(content_files, op'.t)))
          => /\ ret' = RetNone
             /\ store_calls' = <<StoreCall("load_topic", op'.t)>>
             /\ cache' = cache
             /\ stats'.topics_loaded = stats.topics_loaded]_vars

\* C12 witness: get_topic went to the Store for a document without its
\* sixth section and returned absent.
C12_Witness ==
    /\ inicializado
    /\ op.name = "get_topic"
    /\ ret = RetNone
    /\ store_calls # <<>>
    /\ FileAt(content_files, op.t) = FileSin("6_reto_proyecto")
    /\ KeyOf(op.t) \notin DOMAIN cache.topics

\* The sixth section is a complete challenge or a complete project.
ValidVariant(reto) ==
    /\ "tipo" \in DOMAIN reto
    /\ \/ /\ reto["tipo"] = "programacion"
          /\ {"titulo", "descripcion", "codigo_inicial", "solucion_referencia"}
                \subseteq DOMAIN reto
       \/ /\ reto["tipo"] = "conceptual"
          /\ {"titulo", "descripcion", "objetivos"} \subseteq DOMAIN reto

\* C13: load_topic raises, and returns no Topic, for a document whose sixth
\* section has a type other than "programacion" and "conceptual" (or none),
\* or lacks a field its variant requires.
C13_InvalidVariantRejected ==
    [][(/\ IsCall
        /\ op'.name = "load_topic"
        /\ FileAt(content_files, op'.t).st = "json"
        /\ "6_reto_proyecto" \in DOMAIN FileAt(content_files, op'.t).data
        /\ ~ValidVariant(FileAt(content_files, op'.t).data["6_reto_proyecto"]))
       => ret'.kind = "raise"]_vars

\* C14: for a document load_topic accepts, a programming sixth section makes
\* load_challenge return a Challenge and load_project absent, a conceptual
\* one makes load_project return a Project and load_challenge absent, and
\* the two never both return an object.
C14_ExclusiveDispatch ==
    [][(/\ IsCall
        /\ op'.name \in {"load_challenge", "load_project"}
        /\ load_topic(content_files, op'.t, 0).ok)
       => LET reto == FileAt(content_files, op'.t).data["6_reto_proyecto"]
              tipo == DictGet(reto, "tipo", "None")
              c == load_challenge(content_files, op'.t, 0)
              p == load_project(content_files, op'.t, 0)
          IN  /\ (tipo = "programacion" /\ op'.name = "load_challenge")
                    => (ret'.kind = "obj" /\ ret'.val.cls = "Challenge")
              /\ (tipo = "programacion" /\ op'.name = "load_project")
                    => ret' = RetNone
              /\ (tipo = "conceptual" /\ op'.name = "load_project")
                    => (ret'.kind = "obj" /\ ret'.val.cls = "Project")
              /\ (tipo = "conceptual" /\ op'.name = "load_challenge")
                    => ret' = RetNone
              /\ ~(/\ c.ok /\ c.val.kind = "obj"
                   /\ p.ok /\ p.val.kind = "obj")]_vars

\* C15: a search whose trimmed query has fewer than 2 characters returns the
\* empty list, makes no ContentLoader call and leaves the caches, the
\* counters and the rest of the coordinator as they were, whatever the
\* files and the filters are.
C15_ShortQueryReturnsEmpty ==
    [][(/\ IsCall
        /\ op'.name = "search"
        /\ Len(Strip(op'.query)) < 2)
       => /\ ret' = RetList(<<>>)
          /\ store_calls' = <<>>
          /\ UNCHANGED <<inicializado, dm_semestres, cache, stats, next_oid>>]_vars

\* C15 witness: on a ready coordinator the query " c", one character once
\* trimmed, was answered with the empty list.
C15_Witness ==
    /\ inicializado
    /\ op.name = "search"
    /\ op.query = <<" ", "c">>
    /\ ret = RetList(<<>>)

\* position of a result record in the enumeration of the topic stubs
StubIndex(semestres, r) ==
    LET stubs == FlatTemas(semestres)
    IN  CHOOSE i \in 1..Len(stubs) :
           /\ stubs[i].semestre.numero = r.semestre
           /\ stubs[i].materia.id = r.materia_id
           /\ stubs[i].tema["archivo"] = r.archivo

\* C16: with max_results >= 0, the list search returns is the first
\* max_results records (at most max_results of them) of the qualifying
\* records sorted by non-increasing relevancia, records of equal relevancia
\* being in the order their stubs are enumerated.
C16_SortedStableTruncated ==
    [][(/\ IsCall
        /\ op'.name = "search"
        /\ op'.max_results >= 0)
       => \A todos \in
              {search(Self, content_files, op'.query, op'.semestre,
                      op'.materia_id, op'.dificultad, op'.tipo,
                      Len(FlatTemas(dm_semestres))).ret.val} :
          LET n == IF op'.max_results < Len(todos) THEN op'.max_results
                   ELSE Len(todos)
          IN  /\ \A i, j \in 1..Len(todos) :
                    i < j => /\ ~FracLess(todos[i].relevancia, todos[j].relevancia)
                             /\ FracEq(todos[i].relevancia, todos[j].relevancia)
                                   => StubIndex(dm_semestres, todos[i])
                                        < StubIndex(dm_semestres, todos[j])
              /\ ret'.kind = "list"
              /\ Len(ret'.val) <= op'.max_results
              /\ ret'.val = SubSeq(todos, 1, n)]_vars

\* C16 witness: a search returned three records, the first of them from
\* the second stub of the enumeration, the other two of equal relevancia.
C16_Witness ==
    /\ op.name = "search"
    /\ ret.kind = "list"
    /\ Len(ret.val) = 3
    /\ ret.val[1].archivo = T_a_bc.arch
    /\ FracLess(ret.val[2].relevancia, ret.val[1].relevancia)
    /\ FracEq(ret.val[2].relevancia, ret.val[3].relevancia)
    /\ ret.val[2].archivo = T_ab_c.arch /\ ret.val[2].materia_id = T_ab_c.mat
    /\ ret.val[3].semestre = T_a_c.sem

\* the triple of the topic a result record was built for
ResultTriple(r) == [sem |-> r.semestre, mat |-> r.materia_id, arch |-> r.archivo]

\* C17: every record of a search made with a dificultad filter is of a
\* topic whose file has metadata with that dificultad; a topic whose
\* metadata differs or cannot be obtained is not returned.
C17_DifficultyFilterSound ==
    [][(/\ IsCall
        /\ op'.name = "search"
        /\ op'.dificultad # "")
       => \A i \in 1..Len(ret'.val) :
             LET md == obtener_metadatos(content_files, ResultTriple(ret'.val[i]))
             IN  /\ md.kind = "dict"
                 /\ DictGet(md.val, "dificultad", "None") = op'.dificultad]_vars

\* C18: every record of a search made with a tipo_reto filter is of a topic
\* whose file loads as a Topic of that variant; a topic of another variant
\* or whose load fails is not returned.
C18_ChallengeTypeFilterSound ==
    [][(/\ IsCall
        /\ op'.name = "search"
        /\ op'.tipo # "")
       => \A i \in 1..Len(ret'.val) :
             LET r == load_topic(content_files, ResultTriple(ret'.val[i]), 0)
             IN  /\ r.ok
                 /\ tipo_reto(r.val) = op'.tipo]_vars

\* C19: on a ready coordinator validar_integridad_completa returns the
\* problems of the Index check followed by one problem per topic stub whose
\* file does not exist, in stub order, each naming its semester, subject and
\* file and so differing from the others; the flag is true exactly when the
\* list is empty; with no Index problem and exactly one missing file the
\* result is (False, [one problem]).
C19_IntegrityReportsEachMissingFile ==
    [][(/\ IsCall
        /\ op'.name = "validar_integridad_completa"
        /\ inicializado)
       => LET idx == CurriculumLoader_validar_integridad(cl_semestres)
              Falta(stub) == ~existe_archivo(content_files, StubTriple(stub))
              sin == SelectSeq(FlatTemas(dm_semestres), Falta)
              valido == ret'.val[1]
              problemas == ret'.val[2]
          IN  /\ ret'.kind = "tuple"
              /\ Len(problemas) = Len(idx) + Len(sin)
              /\ SubSeq(problemas, 1, Len(idx)) = idx
              /\ \A i \in 1..Len(sin) :
                    LET t == StubTriple(sin[i])
                    IN  problemas[Len(idx) + i] =
                            ArchivoNoExiste(t)
              /\ \A i, j \in 1..Len(sin) :
                    i # j => problemas[Len(idx) + i] # problemas[Len(idx) + j]
              /\ valido <=> problemas = <<>>
              /\ (idx = <<>> /\ Len(sin) = 1)
                    => (~valido /\ Len(problemas) = 1)]_vars

\* C19 witness: with a curriculum the Index check accepts and two files
\* missing, the validation returned (False, [two problems]).
C19_Witness ==
    /\ inicializado
    /\ op.name = "validar_integridad_completa"
    /\ CurriculumLoader_validar_integridad(cl_semestres) = <<>>
    /\ ret.kind = "tuple"
    /\ ~ret.val[1]
    /\ Len(ret.val[2]) = 2
    /\ ret.val[2][1] # ret.val[2][2]

\* C20: buscar_retos_programacion, called with no topic cached, returns a
\* list (it never raises) holding exactly one record, in stub order, for
\* each topic stub whose file loads as a Topic of the programming variant;
\* stubs whose topic fails to load are skipped.
C20_ScanReturnsLoadableProgramming ==
    [][(/\ IsCall
        /\ op'.name = "buscar_retos_programacion"
        /\ cache.topics = EmptyDict)
       => LET Loads(stub) ==
                  LET r == load_topic(content_files, StubTriple(stub), 0)
                  IN  r.ok /\ es_reto_programacion(r.val)
              esperados == SelectSeq(FlatTemas(dm_semestres), Loads)
          IN  /\ ret'.kind = "list"
              /\ Len(ret'.val) = Len(esperados)
              /\ \A i \in 1..Len(esperados) :
                    /\ ret'.val[i].semestre = esperados[i].semestre.numero
                    /\ ret'.val[i].materia_id = esperados[i].materia.id
                    /\ ret'.val[i].archivo = esperados[i].tema["archivo"]]_vars

\* metadata and the six sections are non-empty and the title is non-empty
TopicInvariant(topic) ==
    /\ tiene_contenido_completo(topic)
    /\ DictGet(topic.metadata, "titulo", "") # ""

\* C21: every Topic load_topic or get_topic returned, and every entry of
\* the topics bucket, has non-empty metadata, six non-empty sections and a
\* non-empty metadata title.
C21_TopicInvariant ==
    /\ (ret.kind = "obj" /\ ret.val.cls = "Topic") => TopicInvariant(ret.val)
    /\ \A k \in DOMAIN cache.topics : TopicInvariant(cache.topics[k])

\* C22: on an initialized coordinator every get_topic, get_challenge and
\* get_project call adds one to exactly one of cache_hits and cache_misses:
\* to cache_hits when it is answered from its bucket (no ContentLoader
\* call), to cache_misses when it goes to the ContentLoader.
C22_EveryGetCountsHitOrMiss ==
    [][(/\ IsCall
        /\ inicializado
        /\ op'.name \in {"get_topic", "get_challenge", "get_project"})
       => IF store_calls' = <<>>
          THEN /\ stats'.cache_hits = stats.cache_hits + 1
               /\ stats'.cache_misses = stats.cache_misses
          ELSE /\ stats'.cache_hits = stats.cache_hits
               /\ stats'.cache_misses = stats.cache_misses + 1]_vars

\* the coordinator with the named buckets emptied
Emptied(self, buckets) ==
    [self EXCEPT !.cache = [b \in DOMAIN self.cache |->
                               IF b \in buckets THEN EmptyDict ELSE self.cache[b]]]

ObjectBuckets == {"topics", "challenges", "projects"}

\* C23: get_metadatos_tema leaves the topics, challenges and projects
\* buckets and the counters unchanged and returns what it would return with
\* those buckets empty; get_topic, get_challenge and get_project leave the
\* metadata bucket unchanged and return what they would return with it
\* empty; clearing the metadata bucket leaves the three object buckets
\* unchanged and clearing an object bucket leaves the metadata bucket
\* unchanged.
C23_MetadataCacheIndependent ==
    [][IsCall =>
        /\ op'.name = "get_metadatos_tema"
              => /\ \A b \in ObjectBuckets : cache'[b] = cache[b]
                 /\ stats' = stats
                 /\ ret' = get_metadatos_tema(Emptied(Self, ObjectBuckets),
                                              content_files, op'.t).ret
        /\ op'.name \in {"get_topic", "get_challenge", "get_project"}
              => /\ cache'.metadata = cache.metadata
                 /\ LET bare == Emptied(Self, {"metadata"})
                    IN  ret' = (CASE op'.name = "get_topic" ->
                                       get_topic(bare, content_files, op'.t, op'.force)
                                  [] op'.name = "get_challenge" ->
                                       get_challenge(bare, content_files, op'.t, op'.force)
                                  [] OTHER ->
                                       get_project(bare, content_files, op'.t, op'.force)).ret
        /\ (op'.name = "limpiar_cache" /\ op'.tipo = "metadata")
              => \A b \in ObjectBuckets : cache'[b] = cache[b]
        /\ (op'.name = "limpiar_cache" /\ op'.tipo \in ObjectBuckets)
              => cache'.metadata = cache.metadata]_vars

\* C23 witness: after a Topic was loaded and the topics bucket cleared, a
\* preview was answered from the metadata bucket.
C23_Witness ==
    /\ op.name = "get_metadatos_tema"
    /\ ret.kind = "dict"
    /\ store_calls = <<>>
    /\ stats.topics_loaded > 0
    /\ cache.topics = EmptyDict
    /\ cache.metadata # EmptyDict

\* the records of search(keyword) for each keyword in turn, one after another
RECURSIVE KeywordResults(_, _, _)
KeywordResults(self, files, keywords) ==
    IF keywords = <<>> THEN <<>>
    ELSE LET o == search(self, files, Head(keywords), 0, <<>>, "", "", 50)
         IN  o.ret.val \o KeywordResults(o.self, files, Tail(keywords))

\* the sum of the relevancia of the records of triple t
RECURSIVE SumRelevancia(_, _)
SumRelevancia(records, t) ==
    IF records = <<>> THEN Frac(0, 1)
    ELSE LET rest == SumRelevancia(Tail(records), t)
         IN  IF ResultTriple(Head(records)) = t
             THEN FracAdd(Head(records).relevancia, rest)
             ELSE rest

\* C24: search_by_keywords returns the empty list for an empty keyword list
\* or an operator other than OR and AND; with OR it returns one record for
\* each distinct (semestre, materia_id, archivo) found by the search of any
\* keyword, its relevancia the sum of the relevancia of that triple's
\* records over the keywords' searches, by non-increasing relevancia.
C24_KeywordsOrMergesPerTriple ==
    [][(/\ IsCall
        /\ op'.name = "search_by_keywords")
       => /\ (op'.keywords = <<>> \/ op'.operator \notin {"OR", "AND"})
                => ret' = RetList(<<>>)
          /\ (op'.keywords # <<>> /\ op'.operator = "OR")
                => \A all \in {KeywordResults(Self, content_files, op'.keywords)} :
                   LET triples == {ResultTriple(all[i]) : i \in 1..Len(all)}
                       out == ret'.val
                   IN  /\ Len(out) = Cardinality(triples)
                       /\ {ResultTriple(out[i]) : i \in 1..Len(out)} = triples
                       /\ \A i \in 1..Len(out) :
                             FracEq(out[i].relevancia,
                                    SumRelevancia(all, ResultTriple(out[i])))
                       /\ \A i, j \in 1..Len(out) :
                             i < j => ~FracLess(out[i].relevancia,
                                                out[j].relevancia)]_vars

\* C25: with AND and a non-empty keyword list, search_by_keywords returns
\* the records of search(keywords[0]), in that order and unchanged, for
\* which every later keyword is, ignoring case, a substring of the topic's
\* name or of the subject's name, and no other record.
C25_KeywordsAndFiltersFirstSearch ==
    [][(/\ IsCall
        /\ op'.name = "search_by_keywords"
        /\ op'.operator = "AND"
        /\ op'.keywords # <<>>)
       => \A base \in {search(Self, content_files, Head(op'.keywords),
                               0, <<>>, "", "", 50).ret.val} :
          LET Keep(r) ==
                  \A i \in 2..Len(op'.keywords) :
                     \/ Contains(Lower(op'.keywords[i]), Lower(r.tema_nombre))
                     \/ Contains(Lower(op'.keywords[i]), Lower(r.materia_nombre))
          IN  ret' = RetList(SelectSeq(base, Keep))]_vars

\* C25 witness: an AND search kept two of the three records of the first
\* keyword's search, one of them for its subject's name only.
C25_Witness ==
    /\ op.name = "search_by_keywords"
    /\ op.operator = "AND"
    /\ op.keywords = <<<<"b", "c">>, <<"B">>>>
    /\ ret.kind = "list"
    /\ Len(ret.val) = 2
    /\ ret.val[2].tema_nombre = <<"C">>
    /\ ret.val[2].materia_nombre = <<"A", "b">>

\* C26: a forced get_topic whose load fails returns None and leaves the
\* topics bucket as it was, and an unforced get_topic that finds an entry
\* under its key returns that entry as a cache hit without going to the
\* ContentLoader: the entry cached before the failed reload is still served.
C26_FailedReloadKeepsStaleEntry ==
    [][(/\ IsCall
        /\ inicializado
        /\ op'.name = "get_topic")
       => LET key == KeyOf(op'.t)
          IN  /\ (op'.force /\ ~load_topic(content_files, op'.t, 0).ok)
                    => (ret' = RetNone /\ cache' = cache)
              /\ (~op'.force /\ key \in DOMAIN cache.topics)
                    => /\ ret' = RetObj(cache.topics[key])
                       /\ cache' = cache
                       /\ store_calls' = <<>>
                       /\ stats'.cache_hits = stats.cache_hits + 1
                       /\ stats'.cache_misses = stats.cache_misses]_vars

\* C26 witness: after one load and one failed forced reload, an unforced
\* get_topic returned the cached Topic of a file that no longer loads.
C26_Witness ==
    /\ op.name = "get_topic"
    /\ op.t = Mutable
    /\ ~op.force
    /\ ret.kind = "obj"
    /\ ret.val.src = Mutable
    /\ store_calls = <<>>
    /\ ~load_topic(content_files, Mutable, 0).ok
    /\ stats.topics_loaded = 1
    /\ stats.cache_misses = 2
    /\ stats.cache_hits = 1

\* C27: a get_topic that goes to the ContentLoader (forced, or no entry
\* under its key) and whose load fails makes exactly that one load, returns
\* None, adds one to cache_misses and changes nothing else: no bucket, no
\* other counter; so the next call for the key goes to the ContentLoader
\* again.
C27_FailedLoadCountsOneMiss ==
    [][(/\ IsCall
        /\ inicializado
        /\ op'.name = "get_topic"
        /\ (op'.force \/ KeyOf(op'.t) \notin DOMAIN cache.topics)
        /\ ~load_topic(content_files, op'.t, 0).ok)
       => /\ ret' = RetNone
          /\ store_calls' = <<StoreCall("load_topic", op'.t)>>
          /\ cache' = cache
          /\ stats' = [stats EXCEPT !.cache_misses = @ + 1]
          /\ next_oid' = next_oid]_vars

\* C27 witness: three get_topic calls on a key whose file does not load
\* made three loads and counted three misses, no hit and no entry.
C27_Witness ==
    /\ op.name = "get_topic"
    /\ ~op.force
    /\ ret = RetNone
    /\ store_calls # <<>>
    /\ stats.cache_misses = 3
    /\ stats.cache_hits = 0
    /\ stats.topics_loaded = 0
    /\ cache.topics = EmptyDict

\* number of entries of a bucket
Size(bucket) == Cardinality(DOMAIN bucket)

\* C28: in every state the topics bucket has at most topics_loaded entries
\* and topics_loaded is at most cache_misses, the challenges bucket has at
\* most challenges_loaded entries and the projects bucket at most
\* projects_loaded; no step decreases any of the five counters, and
\* limpiar_cache leaves all five as they are.
C28_CounterInvariant ==
    /\ [](/\ Size(cache.topics) <= stats.topics_loaded
          /\ stats.topics_loaded <= stats.cache_misses
          /\ Size(cache.challenges) <= stats.challenges_loaded
          /\ Size(cache.projects) <= stats.projects_loaded)
    /\ [][/\ \A c \in DOMAIN stats : stats'[c] >= stats[c]
          /\ (IsCall /\ op'.name = "limpiar_cache") => stats' = stats]_vars

\* C28 witness: limpiar_cache emptied the topics and challenges buckets
\* after one Topic and one Challenge were loaded, and the counters still
\* show them.
C28_Witness ==
    /\ op.name = "limpiar_cache"
    /\ cache.topics = EmptyDict
    /\ cache.challenges = EmptyDict
    /\ stats.topics_loaded = 1
    /\ stats.cache_misses = 1
    /\ stats.challenges_loaded = 1

\* C29: on an initialized coordinator get_semestre(n) returns the first
\* semester numbered n of the list get_semestres() returns, and None when
\* that list has none, also after an initialize() that failed part-way
\* through a changed curriculum.json.
C29_IndexAgreesWithCoordinator ==
    [][(/\ IsCall
        /\ inicializado
        /\ op'.name = "get_semestre")
       => ret' = CurriculumLoader_get_semestre(get_semestres(Self).val,
                                               op'.numero)]_vars

\* 'meta_' + cache key
MetaKeyOf(t) == <<"m", "e", "t", "a", "_">> \o KeyOf(t)

\* C30: a search without a tipo_reto filter leaves the topics, challenges
\* and projects buckets, the five counters and the rest of the coordinator
\* unchanged; in the metadata bucket it keeps every entry as it is and adds
\* entries only under the keys of topic stubs that score more than 0 for
\* the query.
C30_SearchFrame ==
    [][(/\ IsCall
        /\ op'.name = "search"
        /\ op'.tipo = "")
       => /\ \A b \in ObjectBuckets : cache'[b] = cache[b]
          /\ stats' = stats
          /\ UNCHANGED <<inicializado, dm_semestres, next_oid>>
          /\ \A k \in DOMAIN cache.metadata :
                /\ k \in DOMAIN cache'.metadata
                /\ cache'.metadata[k] = cache.metadata[k]
          /\ \A k \in (DOMAIN cache'.metadata) \ (DOMAIN cache.metadata) :
                LET stubs == FlatTemas(dm_semestres)
                IN  \E i \in 1..Len(stubs) :
                       /\ k = MetaKeyOf(StubTriple(stubs[i]))
                       /\ _calcular_relevancia(Strip(Lower(op'.query)),
                                               stubs[i].tema,
                                               stubs[i].materia.nombre).num > 0]_vars

\* C30 witness: a search for "ab", which only the first stub matches,
\* returned a record and left a metadata entry for that stub and none for
\* the stub of the second semester.
C30_Witness ==
    /\ op.name = "search"
    /\ op.tipo = ""
    /\ op.query = <<"a", "b">>
    /\ ret.kind = "list"
    /\ Len(ret.val) = 1
    /\ MetaKeyOf(T_ab_c) \in DOMAIN cache.metadata
    /\ MetaKeyOf(T_a_c) \notin DOMAIN cache.metadata

====
